---- MODULE Spec2Model ----
(***************************************************************************)
(* A model of the MCP weather server's protocol dispatch engine            *)
(* (server/mcp_server.py, server/models.py, server/weather_service.py,     *)
(* server/langchain_integration.py).                                       *)
(*                                                                         *)
(* One connection is modelled, either the synchronous POST /mcp endpoint   *)
(* or the persistent /mcp/ws endpoint.  Each await of the transport loop   *)
(* is one action: the receipt and validation of an envelope, the call of   *)
(* process_mcp_request, and the delivery of what it returned.              *)
(*                                                                         *)
(* JSON and Python values are tagged records [kind, val]; Python's None is *)
(* [kind |-> "null"].  A Python dict is a function from its keys.          *)
(***************************************************************************)
EXTENDS Integers, Sequences, FiniteSets, TLC

VARIABLES
    transport,        \* "http": POST /mcp;  "ws": /mcp/ws
    weather_api_key,  \* WeatherService.api_key is set (WEATHER_API_KEY)
    llm_configured,   \* WeatherLangChainService.llm is not None (OPENAI_API_KEY)
    pc,               \* position of the endpoint's coroutine
    request,          \* the MCPRequest handed to process_mcp_request
    response,         \* what process_mcp_request returned
    handler_exc,      \* str(e) of the exception the dispatched handler raised
    ws_in,            \* ids of the requests parsed on the connection, in order
    ws_out,           \* ids of the responses sent on the connection, in order
    http_status,      \* status of the HTTP reply, 0 while there is none
    backend,          \* history: what the providers' backends did in the tool call
    initialized,      \* history: an initialize was answered on the connection
    ws_sent,          \* the envelope sent in answer to the frame at hand
    close_reason,     \* history: why the WebSocket loop ended, "none" while open
    provider_calls,   \* history: provider methods invoked for the request at hand
    direct_call,      \* a provider method called on its own, with its arguments
    direct_result,    \* what that provider method returned or raised
    ws_data,          \* the frame read from the WebSocket for the request at hand
    client_gone,      \* the WebSocket client went away while its request was in hand
    meanwhile         \* history: the last call of another caller that the same
                      \* object took while a provider call was outstanding for
                      \* the request at hand (until its response is handed over)

vars == <<transport, weather_api_key, llm_configured, pc, request, response,
          handler_exc, ws_in, ws_out, http_status, backend, initialized,
          ws_sent, close_reason, provider_calls, direct_call, direct_result,
          ws_data, client_gone, meanwhile>>

---------------------------------------------------------------------------
(* Bounds of the model *)

\* Frames read on one persistent connection.
MaxFrames == 2

\* Largest number of days asked of the forecast (the tool's schema allows 1..7).
MaxDays == 7

---------------------------------------------------------------------------
(* Python and JSON values *)

None == [kind |-> "null"]
JStr(s) == [kind |-> "str", val |-> s]
JInt(n) == [kind |-> "int", val |-> n]
JObj(f) == [kind |-> "obj", val |-> f]
EmptyDict == JObj(<<>>)

\* A value not yet assigned (no Python counterpart).
Unset == [kind |-> "unset"]
\* No exception was raised.
NoExc == [kind |-> "noexc"]

\* bool(v)
Truthy(v) ==
    CASE v.kind = "null" -> FALSE
      [] v.kind = "str"  -> v.val # ""
      [] v.kind = "int"  -> v.val # 0
      [] v.kind = "obj"  -> DOMAIN v.val # {}

\* str(v), as an f-string interpolates it
PyStr(v) ==
    CASE v.kind = "null" -> "None"
      [] v.kind = "str"  -> v.val
      [] v.kind = "int"  -> ToString(v.val)
      [] v.kind = "obj" /\ DOMAIN v.val = {} -> "{}"

\* type(v).__name__
TypeName(v) ==
    CASE v.kind = "null" -> "NoneType"
      [] v.kind = "str"  -> "str"
      [] v.kind = "int"  -> "int"
      [] v.kind = "obj"  -> "dict"

\* key in d
HasKey(d, key) == key \in DOMAIN d.val

\* d.get(key, default) of a dict d
DictGet(d, key, default) == IF key \in DOMAIN d.val THEN d.val[key] ELSE default

\* str(e) of the AttributeError that v.<attr> raises
NoAttribute(v, attr) ==
    "'" \o TypeName(v) \o "' object has no attribute '" \o attr \o "'"

\* s.startswith(prefix)
StartsWith(s, prefix) ==
    /\ Len(s) >= Len(prefix)
    /\ SubSeq(s, 1, Len(prefix)) = prefix

\* sub in s
Contains(s, sub) ==
    \E i \in 1..(Len(s) - Len(sub) + 1) : SubSeq(s, i, i + Len(sub) - 1) = sub

\* What a call does: return a value or raise an exception with str(e) = msg.
\* calls lists the provider methods the handler has invoked on the way.
Return(v) == [kind |-> "return", val |-> v, calls |-> <<>>]
Raise(msg) == [kind |-> "raise", msg |-> msg, calls |-> <<>>]

\* The outcome of what ran after the calls were made
After(calls, outcome) == [outcome EXCEPT !.calls = calls \o @]

\* The handler invokes a provider method
Invoke(method, outcome) == After(<<method>>, outcome)

\* The statements after a call: they run on the value it returned, and an
\* exception it raised goes on to the caller.
Then(outcome, Rest(_)) ==
    IF outcome.kind = "raise" THEN outcome ELSE After(outcome.calls, Rest(outcome.val))

\* try: <outcome> except Exception as e: <Handler(str(e))>
Except(outcome, Handler(_)) ==
    IF outcome.kind = "raise" THEN After(outcome.calls, Handler(outcome.msg)) ELSE outcome

---------------------------------------------------------------------------
(* The envelope model, server/models.py *)

MethodNotFound == -32601
InvalidParams == -32602
InternalError == -32603

MCPResponse(id, result, error) ==
    [kind |-> "MCPResponse", jsonrpc |-> "2.0", id |-> id,
     result |-> result, error |-> error]

\* MCPError(code=..., message=...).model_dump()
MCPError(code, message) == [code |-> code, message |-> message, data |-> None]

ErrorResponse(id, code, message) == MCPResponse(id, None, MCPError(code, message))

IsResponse(r) == r.kind = "MCPResponse"

\* MCPRequest(**request_data): id is a str or an int and is kept as it is,
\* method is a str, params is a dict or None (absent and null both give None).
ValidEnvelope(data) ==
    /\ data.kind = "obj"
    /\ HasKey(data, "id") /\ data.val["id"].kind \in {"str", "int"}
    /\ HasKey(data, "method") /\ data.val["method"].kind = "str"
    /\ HasKey(data, "params") => data.val["params"].kind \in {"null", "obj"}
    /\ HasKey(data, "jsonrpc") => data.val["jsonrpc"].kind = "str"

MCPRequest(data) ==
    [id |-> data.val["id"],
     method |-> data.val["method"].val,
     params |-> DictGet(data, "params", None)]

---------------------------------------------------------------------------
(* Catalog handlers, server/mcp_server.py *)

MIME_TYPE_JSON == "application/json"
ERROR_LOCATION_REQUIRED == "Location is required"

ProtocolVersion == "2024-11-05"

InitializeResult ==
    [protocolVersion |-> ProtocolVersion,
     capabilities |-> [resources |-> TRUE, tools |-> TRUE, prompts |-> TRUE],
     serverInfo |-> [name |-> "weather-mcp-server", version |-> "1.0.0"]]

\* handle_initialize refusing a protocol version other than its own
handle_initialize_Negotiated(req) ==
    IF Truthy(req.params) /\ HasKey(req.params, "protocolVersion")
       /\ req.params.val["protocolVersion"] # JStr(ProtocolVersion)
    THEN Return(ErrorResponse(req.id, InvalidParams, "Unsupported protocol version"))
    ELSE Return(MCPResponse(req.id, InitializeResult, None))

handle_initialize(req) == Return(MCPResponse(req.id, InitializeResult, None))

ResourceCatalog ==
    << [uri |-> "weather://current", name |-> "Current Weather",
        description |-> "Current weather data for any location",
        mimeType |-> MIME_TYPE_JSON],
       [uri |-> "weather://forecast", name |-> "Weather Forecast",
        description |-> "Multi-day weather forecast",
        mimeType |-> MIME_TYPE_JSON] >>

handle_list_resources(req) ==
    Return(MCPResponse(req.id, [resources |-> ResourceCatalog], None))

\* json.dumps(content, indent=2) of the two static payloads
CurrentResourceText ==
    "{\n  \"description\": \"Current weather endpoint\",\n"
    \o "  \"endpoint\": \"/tools/call with name 'get_weather'\",\n"
    \o "  \"parameters\": {\n"
    \o "    \"location\": \"string (required)\",\n"
    \o "    \"units\": \"string (optional, default: metric)\"\n"
    \o "  }\n}"

ForecastResourceText ==
    "{\n  \"description\": \"Weather forecast endpoint\",\n"
    \o "  \"endpoint\": \"/tools/call with name 'get_forecast'\",\n"
    \o "  \"parameters\": {\n"
    \o "    \"location\": \"string (required)\",\n"
    \o "    \"days\": \"integer (optional, default: 5)\"\n"
    \o "  }\n}"

ResourceContents(uri, text) ==
    [contents |-> << [uri |-> uri, mimeType |-> "application/json", text |-> text] >>]

\* handle_read_resource with the uri matched by prefix
handle_read_resource_PrefixMatch(req) ==
    IF ~Truthy(req.params) \/ ~HasKey(req.params, "uri")
    THEN Return(ErrorResponse(req.id, InvalidParams, "Missing uri parameter"))
    ELSE LET uri == req.params.val["uri"] IN
         IF uri.kind = "str" /\ StartsWith(uri.val, "weather://current")
         THEN Return(MCPResponse(req.id, ResourceContents(uri, CurrentResourceText), None))
         ELSE IF uri.kind = "str" /\ StartsWith(uri.val, "weather://forecast")
         THEN Return(MCPResponse(req.id, ResourceContents(uri, ForecastResourceText), None))
         ELSE Return(ErrorResponse(req.id, InvalidParams,
                                   "Unknown resource: " \o PyStr(uri)))

\* handle_read_resource answering an unknown uri as the tool and prompt
\* handlers answer an unknown name
handle_read_resource_UnknownIsNotFound(req) ==
    IF ~Truthy(req.params) \/ ~HasKey(req.params, "uri")
    THEN Return(ErrorResponse(req.id, InvalidParams, "Missing uri parameter"))
    ELSE LET uri == req.params.val["uri"] IN
         IF uri = JStr("weather://current")
         THEN Return(MCPResponse(req.id, ResourceContents(uri, CurrentResourceText), None))
         ELSE IF uri = JStr("weather://forecast")
         THEN Return(MCPResponse(req.id, ResourceContents(uri, ForecastResourceText), None))
         ELSE Return(ErrorResponse(req.id, MethodNotFound,
                                   "Unknown resource: " \o PyStr(uri)))

handle_read_resource(req) ==
    IF ~Truthy(req.params) \/ ~HasKey(req.params, "uri")
    THEN Return(ErrorResponse(req.id, InvalidParams, "Missing uri parameter"))
    ELSE LET uri == req.params.val["uri"] IN
         IF uri = JStr("weather://current")
         THEN Return(MCPResponse(req.id, ResourceContents(uri, CurrentResourceText), None))
         ELSE IF uri = JStr("weather://forecast")
         THEN Return(MCPResponse(req.id, ResourceContents(uri, ForecastResourceText), None))
         ELSE Return(ErrorResponse(req.id, InvalidParams,
                                   "Unknown resource: " \o PyStr(uri)))

\* The tool descriptors; of each inputSchema the model keeps the type, the
\* names of the properties and the required list.
ToolCatalog ==
    << [name |-> "get_weather",
        description |-> "Get current weather for a location",
        inputSchema |-> [type |-> "object", properties |-> {"location", "units"},
                         required |-> <<"location">>]],
       [name |-> "get_forecast",
        description |-> "Get weather forecast for a location",
        inputSchema |-> [type |-> "object", properties |-> {"location", "days"},
                         required |-> <<"location">>]],
       [name |-> "get_weather_insights",
        description |-> "Get AI-powered weather insights and recommendations",
        inputSchema |-> [type |-> "object", properties |-> {"location", "activity"},
                         required |-> <<"location">>]],
       [name |-> "get_weather_summary_advisory",
        description |-> "Get comprehensive weather summary and travel advisory powered by AI",
        inputSchema |-> [type |-> "object", properties |-> {"location"},
                         required |-> <<"location">>]] >>

handle_list_tools(req) == Return(MCPResponse(req.id, [tools |-> ToolCatalog], None))

PromptCatalog ==
    << [name |-> "weather_analysis",
        description |-> "Analyze weather conditions for activities",
        arguments |-> << [name |-> "location", description |-> "Location to analyze",
                          required |-> TRUE],
                         [name |-> "activity", description |-> "Planned activity",
                          required |-> FALSE] >>],
       [name |-> "outfit_recommendation",
        description |-> "Recommend clothing based on weather",
        arguments |-> << [name |-> "location",
                          description |-> "Location for recommendations",
                          required |-> TRUE] >>] >>

handle_list_prompts(req) == Return(MCPResponse(req.id, [prompts |-> PromptCatalog], None))

\* The f-string templates of handle_get_prompt
WeatherAnalysisText(location, activity) ==
    "\nAnalyze the current weather conditions in " \o PyStr(location)
    \o " for " \o PyStr(activity) \o ".\n\n"
    \o "Consider the following factors:\n"
    \o "1. Temperature and feels-like temperature\n"
    \o "2. Precipitation probability and conditions\n"
    \o "3. Wind speed and direction\n"
    \o "4. Humidity levels\n"
    \o "5. UV index and sun exposure\n\n"
    \o "Provide recommendations for:\n"
    \o "- Safety considerations\n"
    \o "- Optimal timing\n"
    \o "- Equipment or preparation needed\n"
    \o "- Alternative suggestions if conditions are unfavorable\n"

OutfitRecommendationText(location) ==
    "\nBased on the current weather conditions in " \o PyStr(location)
    \o ", recommend appropriate clothing and accessories.\n\n"
    \o "Consider:\n"
    \o "1. Temperature and wind chill\n"
    \o "2. Precipitation and humidity\n"
    \o "3. Sun exposure and UV levels\n"
    \o "4. Seasonal factors\n\n"
    \o "Provide specific recommendations for:\n"
    \o "- Base layers and main clothing\n"
    \o "- Outerwear requirements\n"
    \o "- Footwear suggestions\n"
    \o "- Accessories (hat, sunglasses, umbrella, etc.)\n"
    \o "- Special considerations for different times of day\n"

\* The result that the return statement of lines 916-930 builds.
PromptResult(prompt_name, prompt_text) ==
    [description |-> "Weather-based " \o PyStr(prompt_name) \o " prompt",
     messages |-> << [role |-> "user",
                      content |-> [type |-> "text", text |-> prompt_text]] >>]

\* handle_get_prompt reading the name with params.get("name"), unchecked
handle_get_prompt_UncheckedName(req) ==
    IF req.params.kind # "obj" THEN Raise(NoAttribute(req.params, "get"))
    ELSE LET prompt_name == DictGet(req.params, "name", None)
             arguments == DictGet(req.params, "arguments", EmptyDict)
         IN  IF prompt_name = JStr("weather_analysis")
                \/ prompt_name = JStr("outfit_recommendation")
             THEN IF arguments.kind # "obj"
                  THEN Raise(NoAttribute(arguments, "get"))
                  ELSE Return(None)
             ELSE Return(ErrorResponse(req.id, MethodNotFound,
                                       "Unknown prompt: " \o PyStr(prompt_name)))

\* handle_get_prompt answering an unknown name as handle_read_resource answers
\* an unknown uri
handle_get_prompt_UnknownIsInvalidParams(req) ==
    IF ~Truthy(req.params) \/ ~HasKey(req.params, "name")
    THEN Return(ErrorResponse(req.id, InvalidParams, "Missing prompt name"))
    ELSE LET prompt_name == req.params.val["name"]
             arguments == DictGet(req.params, "arguments", EmptyDict)
         IN  IF prompt_name = JStr("weather_analysis")
                \/ prompt_name = JStr("outfit_recommendation")
             THEN IF arguments.kind # "obj"
                  THEN Raise(NoAttribute(arguments, "get"))
                  ELSE Return(None)
             ELSE Return(ErrorResponse(req.id, InvalidParams,
                                       "Unknown prompt: " \o PyStr(prompt_name)))

\* The return of lines 916-930 is indented into the else branch, after that
\* branch's own return: the two branches that set prompt_text reach the end of
\* the function, which returns None.
handle_get_prompt(req) ==
    IF ~Truthy(req.params) \/ ~HasKey(req.params, "name")
    THEN Return(ErrorResponse(req.id, InvalidParams, "Missing prompt name"))
    ELSE LET prompt_name == req.params.val["name"]
             arguments == DictGet(req.params, "arguments", EmptyDict)
         IN  IF prompt_name = JStr("weather_analysis")
                \/ prompt_name = JStr("outfit_recommendation")
             THEN IF arguments.kind # "obj"
                  THEN Raise(NoAttribute(arguments, "get"))
                  ELSE Return(None)
             ELSE Return(ErrorResponse(req.id, MethodNotFound,
                                       "Unknown prompt: " \o PyStr(prompt_name)))

CompletionValues ==
    <<"get_weather", "get_forecast", "get_weather_insights",
      "get_weather_summary_advisory">>

handle_completion(req) ==
    Return(MCPResponse(req.id,
                       [completion |-> [values |-> CompletionValues, total |-> 4,
                                        hasMore |-> FALSE]],
                       None))

\* {} as a result
EmptyResult == <<>>

\* request.params.get('requestId') is evaluated for the log line of
\* notifications/cancelled; request.params itself is only formatted for
\* notifications/progress.
handle_notification(req) ==
    IF req.method = "notifications/cancelled" /\ req.params.kind # "obj"
    THEN Raise(NoAttribute(req.params, "get"))
    ELSE Return(MCPResponse(req.id, EmptyResult, None))

---------------------------------------------------------------------------
(* The weather provider, server/weather_service.py.  Temperatures and wind  *)
(* speeds are floats with one decimal: the model holds them in tenths.      *)

UpperLetters == "ABCDEFGHIJKLMNOPQRSTUVWXYZ"
LowerLetters == "abcdefghijklmnopqrstuvwxyz"

IsUpper(c) == \E i \in 1..Len(UpperLetters) : SubSeq(UpperLetters, i, i) = c
IsLower(c) == \E i \in 1..Len(LowerLetters) : SubSeq(LowerLetters, i, i) = c

LowerChar(c) ==
    IF IsUpper(c)
    THEN LET i == CHOOSE j \in 1..Len(UpperLetters) : SubSeq(UpperLetters, j, j) = c
         IN  SubSeq(LowerLetters, i, i)
    ELSE c

UpperChar(c) ==
    IF IsLower(c)
    THEN LET i == CHOOSE j \in 1..Len(LowerLetters) : SubSeq(LowerLetters, j, j) = c
         IN  SubSeq(UpperLetters, i, i)
    ELSE c

\* s.lower()
RECURSIVE StrLower(_)
StrLower(s) ==
    IF s = "" THEN ""
    ELSE LowerChar(SubSeq(s, 1, 1)) \o StrLower(SubSeq(s, 2, Len(s)))

\* s.title(): a letter that follows a letter is lowered, any other letter is
\* raised.
RECURSIVE TitleFrom(_, _)
TitleFrom(s, after_letter) ==
    IF s = "" THEN ""
    ELSE LET c == SubSeq(s, 1, 1)
             cased == IsUpper(c) \/ IsLower(c)
         IN  (IF after_letter THEN LowerChar(c) ELSE UpperChar(c))
             \o TitleFrom(SubSeq(s, 2, Len(s)), cased)

StrTitle(s) == TitleFrom(s, FALSE)

\* A float with one decimal, as str() prints it
FormatTenths(t) ==
    IF t < 0
    THEN "-" \o ToString((-t) \div 10) \o "." \o ToString((-t) % 10)
    ELSE ToString(t \div 10) \o "." \o ToString(t % 10)

mock_data(key) ==
    CASE key = "new york" -> [temp |-> 225, desc |-> "partly cloudy", humidity |-> 65, wind |-> 32]
      [] key = "london"   -> [temp |-> 158, desc |-> "light rain", humidity |-> 78, wind |-> 41]
      [] key = "tokyo"    -> [temp |-> 283, desc |-> "sunny", humidity |-> 52, wind |-> 28]
      [] key = "paris"    -> [temp |-> 187, desc |-> "overcast", humidity |-> 71, wind |-> 35]
      [] key = "sydney"   -> [temp |-> 251, desc |-> "clear sky", humidity |-> 58, wind |-> 45]
      [] OTHER            -> [temp |-> 200, desc |-> "partly cloudy", humidity |-> 60, wind |-> 30]

\* the conversion cut to one decimal instead of rounded
ToFahrenheit_Truncated(t) == (t * 9 + 1600) \div 5

\* round(temperature * 9/5 + 32, 1), in tenths, of a temperature of at least
\* -17.7 (the sum is then not negative, and never falls half way)
ToFahrenheit(t) == (2 * (t * 9 + 1600) + 5) \div 10

WeatherResponse(location, temperature, description, humidity, wind_speed, units) ==
    [location |-> location, temperature |-> temperature,
     description |-> description, humidity |-> humidity,
     wind_speed |-> wind_speed, units |-> units]

\* str(e) of the pydantic ValidationError that WeatherResponse(units=units)
\* raises for a units that is no str (the link names the installed pydantic)
UnitsValidationError(units) ==
    "1 validation error for WeatherResponse\nunits\n"
    \o "  Input should be a valid string [type=string_type, input_value="
    \o PyStr(units) \o ", input_type=" \o TypeName(units) \o "]\n"
    \o "    For further information visit https://errors.pydantic.dev/2.13/v/string_type"

\* location and units are the values the caller passed (any JSON value);
\* WeatherResponse takes str fields only.
MockWeatherOf(data, title, units) ==
    WeatherResponse(title,
                    IF units = "imperial" THEN ToFahrenheit(data.temp) ELSE data.temp,
                    data.desc, data.humidity, data.wind, units)

\* the table looked up with the location as given
get_mock_weather_CaseSensitive(location, units) ==
    IF location.kind # "str" THEN Raise(NoAttribute(location, "lower"))
    ELSE IF units.kind # "str" THEN Raise(UnitsValidationError(units))
    ELSE Return(MockWeatherOf(mock_data(location.val),
                              StrTitle(location.val), units.val))

get_mock_weather(location, units) ==
    IF location.kind # "str" THEN Raise(NoAttribute(location, "lower"))
    ELSE IF units.kind # "str" THEN Raise(UnitsValidationError(units))
    ELSE Return(MockWeatherOf(mock_data(StrLower(location.val)),
                              StrTitle(location.val), units.val))

\* What the upstream API answers when a key is configured: a failure of any
\* kind (network, status, malformed body), or the data of one observation.
UpstreamFailure == [kind |-> "fail"]
UpstreamData ==
    [kind |-> "ok", name |-> "Paris", temp |-> 123, desc |-> "light rain",
     humidity |-> 85, wind |-> 62]
\* A cold day upstream: 4.1 - 4 is not the double nearest to 0.1
UpstreamCold ==
    [kind |-> "ok", name |-> "Oslo", temp |-> 41, desc |-> "light snow",
     humidity |-> 88, wind |-> 41]
UpstreamOutcomes == {UpstreamFailure, UpstreamData, UpstreamCold}

\* get_weather without the fallback of its except clause
get_weather_NoFallback(location, units, api_key, upstream) ==
    IF ~api_key THEN get_mock_weather(location, units)
    ELSE IF upstream.kind = "ok" /\ units.kind = "str"
    THEN Return(WeatherResponse(upstream.name, upstream.temp, upstream.desc,
                                upstream.humidity, upstream.wind, units.val))
    ELSE Raise("Error fetching weather data from API")

get_weather(location, units, api_key, upstream) ==
    IF ~api_key THEN get_mock_weather(location, units)
    ELSE IF upstream.kind = "ok" /\ units.kind = "str"
    THEN Return(WeatherResponse(upstream.name, upstream.temp, upstream.desc,
                                upstream.humidity, upstream.wind, units.val))
    ELSE get_mock_weather(location, units)

Max(a, b) == IF a >= b THEN a ELSE b
Min(a, b) == IF a <= b THEN a ELSE b

Abs(n) == IF n < 0 THEN -n ELSE n

\* ---- Python floats.  A float that str() prints with one decimal is held
\* as its tenths t, an integer: the float is the double nearest to t / 10.
\* The sum of such a float and a multiple of 0.5 is again a double, and not
\* always the double nearest to a number of tenths: it is held as the text
\* repr() gives for it.

RECURSIVE Pow2(_)
Pow2(n) == IF n = 0 THEN 1 ELSE 2 * Pow2(n - 1)

\* The first e from the given one with |T| / 10 < 2^(e+1)
RECURSIVE ExpFrom(_, _)
ExpFrom(a, e) ==
    IF (IF e + 1 >= 0 THEN a < 10 * Pow2(e + 1) ELSE a * Pow2(-(e + 1)) < 10)
    THEN e ELSE ExpFrom(a, e + 1)

\* The binary exponent of T / 10, T # 0: the e with 2^e <= |T| / 10 < 2^(e+1)
\* (0.1 = 1.6 * 2^-4 is the least)
ExpOf(T) == ExpFrom(Abs(T), -4)

\* T * 2^m modulo 20, for m >= 2
Mod20(T, m) ==
    ((T % 20) * (CASE m % 4 = 0 -> 16 [] m % 4 = 1 -> 12
                   [] m % 4 = 2 -> 4  [] OTHER     -> 8)) % 20

\* The rounding of T / 10 to 53 bits: the double nearest to T / 10 is
\* (T + RoundErr(T) / 2^m) / 10 with m = 52 - ExpOf(T)
RoundErr(T) ==
    LET Err(rem) == IF rem < 5 THEN -rem ELSE 10 - rem
    IN  Err(Mod20(T, 52 - ExpOf(T)) % 10)

\* The double x + a / 10 for the double x nearest to t / 10 and a multiple
\* a of 5, as [tenths |-> T, ulps |-> E, scale |-> m]: the double
\* (T + E / 2^m) / 10, the exact sum rounded to 53 bits, ties to even.
\* With e and d the exponent and the rounding of t / 10, the exact sum is
\* (T + d / 2^(52 - e)) / 10; e2 is its exponent.
FloatSum(t, a) ==
    LET \* 10 * (the rounded mantissa) = T * 2^m + E: E is the number of that
        \* residue nearest to d / scale, of two as near the one that makes
        \* the mantissa even
        Rounded(d, m20, scale) ==
            CHOOSE E \in {r \in -20..19 : (m20 + r) % 10 = 0} :
               \A F \in {r \in -20..19 : (m20 + r) % 10 = 0} :
                  \/ Abs(E * scale - d) < Abs(F * scale - d)
                  \/ /\ Abs(E * scale - d) = Abs(F * scale - d)
                     /\ (E = F \/ (m20 + E) % 20 = 0)
        \* where the ulp of the sum is no more than that of x the sum is a
        \* double
        At(T, e, d, e2) ==
            [tenths |-> T,
             ulps |-> IF e >= e2 THEN d * Pow2(e - e2)
                      ELSE Rounded(d, Mod20(T, 52 - e2), Pow2(e2 - e)),
             scale |-> 52 - e2]
        \* |T| / 10 is a power of two and the sum is nearer to zero
        Below(T, d, eT) ==
            /\ IF eT >= 0 THEN Abs(T) = 10 * Pow2(eT) ELSE Abs(T) * Pow2(-eT) = 10
            /\ (T > 0 /\ d < 0) \/ (T < 0 /\ d > 0)
        Sum(T, e, d, eT) == At(T, e, d, IF Below(T, d, eT) THEN eT - 1 ELSE eT)
        Nearest(T, eT) == [tenths |-> T, ulps |-> RoundErr(T), scale |-> 52 - eT]
    IN  IF t + a = 0 THEN [tenths |-> 0, ulps |-> 0, scale |-> 0]
        ELSE IF t = 0 THEN Nearest(a, ExpOf(a))
        ELSE Sum(t + a, ExpOf(t), RoundErr(t), ExpOf(t + a))

\* Decimal digits, the lowest first
RECURSIVE Digits(_)
Digits(n) == IF n = 0 THEN <<>> ELSE <<n % 10>> \o Digits(n \div 10)

RECURSIVE MulSmall(_, _, _)
MulSmall(ds, k, carry) ==
    IF ds = <<>> THEN Digits(carry)
    ELSE LET x == Head(ds) * k + carry
         IN  <<x % 10>> \o MulSmall(Tail(ds), k, x \div 10)

RECURSIVE TimesPow5(_, _)
TimesPow5(ds, m) ==
    IF m = 0 THEN ds
    ELSE LET k == IF m >= 8 THEN 8 ELSE 1
             product == MulSmall(ds, IF k = 8 THEN 390625 ELSE 5, 0)
         IN  IF Len(product) = 0 THEN <<>> ELSE TimesPow5(product, m - k)

\* The digits with zeros above, n digits at least
Pad(ds, n) == ds \o [k \in 1..Max(0, n - Len(ds)) |-> 0]

\* 10^Len(ds) - ds
RECURSIVE Complement(_, _)
Complement(ds, borrowed) ==
    IF ds = <<>> THEN <<>>
    ELSE IF ~borrowed /\ Head(ds) = 0 THEN <<0>> \o Complement(Tail(ds), FALSE)
    ELSE <<(IF borrowed THEN 9 ELSE 10) - Head(ds)>> \o Complement(Tail(ds), TRUE)

RECURSIVE LessSameLen(_, _)
LessSameLen(a, b) ==
    IF a = <<>> THEN FALSE
    ELSE IF a[Len(a)] # b[Len(b)] THEN a[Len(a)] < b[Len(b)]
    ELSE LessSameLen(SubSeq(a, 1, Len(a) - 1), SubSeq(b, 1, Len(b) - 1))

Less(a, b) ==
    LET Padded(n) == LessSameLen(Pad(a, n), Pad(b, n))
    IN  Padded(Max(Len(a), Len(b)))

RECURSIVE Incr(_)
Incr(ds) ==
    IF ds = <<>> THEN <<1>>
    ELSE IF Head(ds) < 9 THEN <<Head(ds) + 1>> \o Tail(ds)
    ELSE <<0>> \o Incr(Tail(ds))

\* The digits written the highest first
RECURSIVE DigitString(_)
DigitString(ds) ==
    IF ds = <<>> THEN ""
    ELSE ToString(ds[Len(ds)]) \o DigitString(SubSeq(ds, 1, Len(ds) - 1))

\* The shortest decimal that reads back as the double: the digits of |v|
\* with nd decimals rounded to p decimals, for the first p whose rounding is
\* less than half an ulp away
RECURSIVE ShortestFrom(_, _, _, _)
ShortestFrom(whole, nd, half, p) ==
    LET Written(h) ==
            DigitString(SubSeq(h, p + 1, Len(h))) \o "." \o DigitString(SubSeq(h, 1, p))
        Try(low, high, up) ==
            IF low = <<>> \/ Less(IF up THEN Complement(low, FALSE) ELSE low, half)
            THEN Written(Pad(IF up THEN Incr(high) ELSE high, p + 1))
            ELSE ShortestFrom(whole, nd, half, p + 1)
    IN  Try(SubSeq(whole, 1, nd - p), SubSeq(whole, nd - p + 1, Len(whole)),
            nd - p > 0 /\ whole[nd - p] >= 5)

\* repr() of the double
FloatRepr(v) ==
    LET \* |ulps| / 2^scale in scale decimals
        Frac(pert, m) == Pad(TimesPow5(Digits(Abs(pert)), m), m)
        \* the digits of 10 * |v|
        Whole(frac, pert, T) ==
            IF pert >= 0 THEN frac \o Pad(Digits(T), 1)
            ELSE Complement(frac, FALSE) \o Pad(Digits(T - 1), 1)
        Of(pert, T, m) ==
            ShortestFrom(Whole(Frac(pert, m), pert, T), m + 1,
                         TimesPow5(<<1>>, m + 1), 1)
    IN  (IF v.tenths < 0 THEN "-" ELSE "")
        \o Of(IF v.tenths > 0 THEN v.ulps ELSE -v.ulps, Abs(v.tenths), v.scale)

\* x + a / 10, a float held as the text repr() gives for it: one decimal
\* where the sum is the double nearest to its tenths
FloatAdd(t, a) ==
    LET Text(v, T) ==
            IF \/ T = 0
               \/ v.ulps = 0
               \/ v.ulps = RoundErr(T) /\ v.scale = 52 - ExpOf(T)
            THEN FormatTenths(T) ELSE FloatRepr(v)
    IN  [kind |-> "float", repr |-> Text(FloatSum(t, a), t + a)]

TwoDigits(n) == IF n < 10 THEN "0" \o ToString(n) ELSE ToString(n)

ForecastEntry(base_weather, i) ==
    [day |-> i + 1,
     date |-> "2024-01-" \o TwoDigits(15 + i),
     temperature |-> FloatAdd(base_weather.temperature, (i - 2) * 20),
     description |-> base_weather.description,
     humidity |-> Max(30, Min(90, base_weather.humidity + i * 3)),
     wind_speed |-> IF base_weather.wind_speed + i * 5 <= 0 THEN JInt(0)
                    ELSE FloatAdd(base_weather.wind_speed, i * 5)]

\* the loop run over range(1, days)
ForecastOf_FromOne(base_weather, days) ==
    IF days.kind # "int"
    THEN Raise("'" \o TypeName(days) \o "' object cannot be interpreted as an integer")
    ELSE Return([location |-> base_weather.location,
                 forecast |-> [i \in 1..Max(0, days.val - 1) |->
                                  ForecastEntry(base_weather, i)],
                 units |-> base_weather.units])

\* days is the value the caller passed: range(days) takes an int.
ForecastOf(base_weather, days) ==
    IF days.kind # "int"
    THEN Raise("'" \o TypeName(days) \o "' object cannot be interpreted as an integer")
    ELSE Return([location |-> base_weather.location,
                 forecast |-> [i \in 1..Max(0, days.val) |->
                                  ForecastEntry(base_weather, i - 1)],
                 units |-> base_weather.units])

get_weather_forecast(location, days, api_key, upstream) ==
    Then(get_weather(location, JStr("metric"), api_key, upstream),
         LAMBDA base_weather : ForecastOf(base_weather, days))

---------------------------------------------------------------------------
(* The insight provider, server/langchain_integration.py.  The emoji that   *)
(* open the sentences of the rule-based texts are written as their names    *)
(* between colons, and the bullet sign as "*".                              *)

\* sep.join(items)
RECURSIVE Join(_, _)
Join(items, sep) ==
    IF Len(items) = 0 THEN ""
    ELSE IF Len(items) = 1 THEN items[1]
    ELSE items[1] \o sep \o Join(Tail(items), sep)

RECURSIVE Bullets(_)
Bullets(items) ==
    IF Len(items) = 0 THEN <<>>
    ELSE <<"* " \o items[1]>> \o Bullets(Tail(items))

\* One optional line of a report
Line(cond, text) == IF cond THEN <<text>> ELSE <<>>

ExerciseActivities == {"running", "jogging", "exercise", "workout"}
OutdoorActivities == {"picnic", "outdoor", "park", "hiking"}

\* activity is a str here
MockInsightsText(weather, activity) ==
    LET t == weather.temperature
        h == weather.humidity
        w == weather.wind_speed
        d == StrLower(weather.description)
        a == StrLower(activity)
        temp_line ==
            IF t < 0 THEN ":warning: Freezing conditions - dress warmly and watch for ice."
            ELSE IF t < 100 THEN ":coat: Cold weather - layer up and consider warm beverages."
            ELSE IF t < 200 THEN ":sun_behind_cloud: Mild weather - light jacket recommended."
            ELSE IF t < 300 THEN ":sunny: Pleasant temperature - great weather for most activities."
            ELSE ":thermometer: Hot weather - stay hydrated and seek shade when possible."
        humidity_line ==
            IF h > 80 THEN <<":droplet: High humidity - expect to feel warmer than actual temperature.">>
            ELSE Line(h < 30, ":desert: Low humidity - stay hydrated and consider moisturizer.")
        wind_line ==
            IF w > 100 THEN <<":dash: Strong winds - secure loose items and consider wind-resistant clothing.">>
            ELSE Line(w > 50, ":wind_face: Moderate winds - light windbreaker might be helpful.")
        condition_line ==
            IF Contains(d, "rain") THEN <<":cloud_with_rain: Rainy conditions - bring umbrella and waterproof gear.">>
            ELSE IF Contains(d, "snow") THEN <<":snowflake: Snowy conditions - wear non-slip footwear and drive carefully.">>
            ELSE IF Contains(d, "cloud") THEN <<":cloud: Cloudy skies - good for outdoor activities without strong sun.">>
            ELSE Line(Contains(d, "clear") \/ Contains(d, "sunny"),
                      ":sunny: Clear skies - don't forget sunscreen and sunglasses.")
        activity_line ==
            IF a \in ExerciseActivities
            THEN IF t > 250 THEN <<":runner: For exercise: Early morning or evening recommended due to heat.">>
                 ELSE IF t < 50 THEN <<":runner: For exercise: Warm up indoors and dress in layers.">>
                 ELSE <<":runner: For exercise: Great conditions for outdoor workouts!">>
            ELSE IF a \in OutdoorActivities
            THEN IF Contains(d, "rain")
                 THEN <<":basket: For outdoor activities: Consider indoor alternatives or postpone.">>
                 ELSE <<":deciduous_tree: For outdoor activities: Perfect weather for spending time outside!">>
            ELSE <<>>
        insights == <<temp_line>> \o humidity_line \o wind_line \o condition_line
                    \o activity_line
        overall ==
            IF t >= 150 /\ t <= 250 /\ h < 70
            THEN "These are ideal conditions for most outdoor activities!"
            ELSE IF t < 50 \/ t > 350
            THEN "Weather conditions are challenging - take extra precautions."
            ELSE "Generally pleasant conditions with minor considerations."
    IN  "Weather Insights for " \o weather.location \o ":\n\n"
        \o Join(Bullets(insights), "\n")
        \o "\n\nOverall: The current conditions are " \o weather.description \o " "
        \o "with a temperature of " \o FormatTenths(t) \o "°C. "
        \o overall

generate_mock_insights(weather, activity) ==
    IF activity.kind # "str" THEN Raise(NoAttribute(activity, "lower"))
    ELSE Return(MockInsightsText(weather, activity.val))

MockSummaryText(weather) ==
    LET t == weather.temperature
        loc == weather.location
        cond == FormatTenths(t) \o "°C with " \o weather.description
    IN  IF t < 0
        THEN ":snowflake: Current conditions in " \o loc \o " are quite cold at " \o cond
             \o ". Bundle up warmly as freezing temperatures can be uncomfortable for extended outdoor exposure."
        ELSE IF t < 100
        THEN ":coat: " \o loc \o " is experiencing cool weather at " \o cond
             \o ". A warm jacket will keep you comfortable during outdoor activities."
        ELSE IF t < 250
        THEN ":sun_behind_cloud: Pleasant conditions in " \o loc \o " with "
             \o FormatTenths(t) \o "°C and " \o weather.description
             \o ". Ideal weather for most outdoor activities with light layers recommended."
        ELSE ":sunny: Warm conditions in " \o loc \o " at " \o cond
             \o ". Stay hydrated and seek shade during peak sun hours."

MockAdvisoryText(weather) ==
    LET t == weather.temperature
        h == weather.humidity
        w == weather.wind_speed
        d == StrLower(weather.description)
        transportation ==
            IF Contains(d, "rain")
            THEN ":car: Transportation: Exercise caution while driving due to wet road conditions. Allow extra travel time and maintain safe following distances."
            ELSE IF Contains(d, "snow")
            THEN ":car: Transportation: Winter driving conditions present. Use winter tires if available and drive slowly on potentially icy roads."
            ELSE IF w > 150
            THEN ":car: Transportation: Strong winds may affect vehicle stability, especially for high-profile vehicles. Secure loose items."
            ELSE ":car: Transportation: Good driving conditions with normal precautions recommended."
        clothing ==
            IF t < 0
            THEN ":coat: Clothing: Wear insulated winter clothing including hat, gloves, and warm boots. Layer clothing for temperature regulation."
            ELSE IF t < 100
            THEN ":coat: Clothing: Dress in warm layers with a jacket or coat. Don't forget a hat and gloves for comfort."
            ELSE IF t > 300
            THEN ":shirt: Clothing: Light, breathable clothing recommended. Wear sunscreen, hat, and sunglasses for sun protection."
            ELSE ":shirt: Clothing: Comfortable layered clothing suitable for current temperature. Adjust layers as needed."
        health ==
            IF h > 80
            THEN <<":droplet: Health: High humidity may make it feel warmer. Stay hydrated and take breaks in air-conditioned spaces if feeling overheated.">>
            ELSE Line(h < 30, ":droplet: Health: Low humidity may cause dry skin and respiratory discomfort. Use moisturizer and stay hydrated.")
        safety ==
            IF t > 300
            THEN <<":thermometer: Safety: Hot weather advisory - limit outdoor exposure during midday hours (11 AM - 3 PM). Drink plenty of water.">>
            ELSE Line(t < -100, ":snowflake: Safety: Extreme cold warning - limit outdoor exposure. Watch for signs of frostbite and hypothermia.")
        timing ==
            IF Contains(d, "rain")
            THEN ":alarm_clock: Activity Timing: Indoor activities recommended. If going outside, bring waterproof gear and umbrella."
            ELSE IF t > 250
            THEN ":alarm_clock: Activity Timing: Best outdoor activity times are early morning (6-9 AM) or evening (6-8 PM) to avoid peak heat."
            ELSE ":alarm_clock: Activity Timing: Good conditions for outdoor activities throughout the day with normal precautions."
    IN  Join(<<transportation, clothing>> \o health \o safety \o <<timing>>, "\n\n")

generate_mock_summary_and_advisory(weather) ==
    Return([summary |-> MockSummaryText(weather),
            advisory |-> MockAdvisoryText(weather),
            location |-> weather.location,
            powered_by |-> "Mock Data (Add OpenAI API key for AI-powered insights)"])

\* What the language-model backend does when it is called: it raises, or it
\* completes each prompt with a text (already stripped).
LlmFailure == [kind |-> "fail"]
LlmCompletion ==
    [kind |-> "ok", insights |-> "Carry an umbrella and plan indoor breaks.",
     summary |-> "Cool and wet.", advisory |-> "Allow extra travel time."]
LlmOutcomes == {LlmFailure, LlmCompletion}

\* _generate_ai_insights without its except clause
generate_ai_insights_NoFallback(weather, activity, llm) ==
    IF llm.kind = "ok" THEN Return(llm.insights)
    ELSE Raise("Error generating AI insights")

generate_ai_insights(weather, activity, llm) ==
    IF llm.kind = "ok" THEN Return(llm.insights)
    ELSE generate_mock_insights(weather, activity)

generate_ai_summary_and_advisory(weather, llm) ==
    IF llm.kind = "ok"
    THEN Return([summary |-> llm.summary, advisory |-> llm.advisory,
                 location |-> weather.location, powered_by |-> "OpenAI GPT"])
    ELSE generate_mock_summary_and_advisory(weather)

\* env: the configuration of the two providers and what their backends answer
\* during this call.
get_weather_insights(location, activity, env) ==
    Then(get_weather(location, JStr("metric"), env.api_key, env.upstream),
         LAMBDA weather :
            IF env.llm_set THEN generate_ai_insights(weather, activity, env.llm)
            ELSE generate_mock_insights(weather, activity))

get_weather_summary_and_advisory(location, env) ==
    Then(get_weather(location, JStr("metric"), env.api_key, env.upstream),
         LAMBDA weather :
            IF env.llm_set THEN generate_ai_summary_and_advisory(weather, env.llm)
            ELSE generate_mock_summary_and_advisory(weather))

---------------------------------------------------------------------------
(* The tool invocation handler, server/mcp_server.py *)

\* the elif chain without the branch of the last tool
ToolNames_WithoutAdvisory == {"get_weather", "get_forecast", "get_weather_insights"}

ToolNames ==
    {"get_weather", "get_forecast", "get_weather_insights",
     "get_weather_summary_advisory"}

TextContent(text) == << [type |-> "text", text |-> text] >>

\* the result with the text repeated in a data field
ToolResult_WithData(id, text, is_error) ==
    MCPResponse(id, [content |-> TextContent(text), isError |-> is_error,
                     data |-> text], None)

ToolResult(id, text, is_error) ==
    MCPResponse(id, [content |-> TextContent(text), isError |-> is_error], None)

WeatherText(weather, units) ==
    LET imperial == (units = JStr("imperial")) IN
    "Weather in " \o weather.location \o ":\n"
    \o "Temperature: " \o FormatTenths(weather.temperature) \o "°"
    \o (IF imperial THEN "F" ELSE "C") \o "\n"
    \o "Description: " \o weather.description \o "\n"
    \o "Humidity: " \o ToString(weather.humidity) \o "%\n"
    \o "Wind Speed: " \o FormatTenths(weather.wind_speed) \o " "
    \o (IF imperial THEN "mph" ELSE "m/s")

RECURSIVE ForecastLines(_)
ForecastLines(forecast) ==
    IF Len(forecast) = 0 THEN ""
    ELSE LET day == forecast[1] IN
         "Day " \o ToString(day.day) \o " (" \o day.date \o "): "
         \o day.temperature.repr \o "°C, " \o day.description \o "\n"
         \o ForecastLines(Tail(forecast))

ForecastText(forecast) ==
    "Weather forecast for " \o forecast.location \o ":\n"
    \o ForecastLines(forecast.forecast)

SummaryAdvisoryText(summary_data) ==
    "Weather Summary: " \o summary_data.summary
    \o "\n\nTravel Advisory: " \o summary_data.advisory

\* The body of the try block for a registered tool, after the check of the
\* location: the provider call, and the response built from what it returns.
CallProvider(id, tool_name, arguments, location, env) ==
    CASE tool_name = "get_weather" ->
           Then(Invoke("weather_service.get_weather",
                       get_weather(location, DictGet(arguments, "units", JStr("metric")),
                                   env.api_key, env.upstream)),
                LAMBDA weather :
                   Return(ToolResult(id,
                                     WeatherText(weather,
                                                 DictGet(arguments, "units", JStr("metric"))),
                                     FALSE)))
      [] tool_name = "get_forecast" ->
           Then(Invoke("weather_service.get_weather_forecast",
                       get_weather_forecast(location, DictGet(arguments, "days", JInt(5)),
                                            env.api_key, env.upstream)),
                LAMBDA forecast : Return(ToolResult(id, ForecastText(forecast), FALSE)))
      [] tool_name = "get_weather_insights" ->
           Then(Invoke("langchain_service.get_weather_insights",
                       get_weather_insights(location,
                                            DictGet(arguments, "activity", JStr("general")),
                                            env)),
                LAMBDA insights : Return(ToolResult(id, insights, FALSE)))
      [] tool_name = "get_weather_summary_advisory" ->
           Then(Invoke("langchain_service.get_weather_summary_and_advisory",
                       get_weather_summary_and_advisory(location, env)),
                LAMBDA summary_data :
                   Return(ToolResult(id, SummaryAdvisoryText(summary_data), FALSE)))

\* RunTool with the location defaulted as the prompts default it
RunTool_DefaultLocation(id, tool_name, arguments, env) ==
    IF arguments.kind # "obj" THEN Raise(NoAttribute(arguments, "get"))
    ELSE CallProvider(id, tool_name, arguments,
                      DictGet(arguments, "location", JStr("New York")), env)

\* The body of the try block for a registered tool.
\* RunTool with the location checked once the provider has answered
RunTool_CheckAfterCall(id, tool_name, arguments, env) ==
    IF arguments.kind # "obj" THEN Raise(NoAttribute(arguments, "get"))
    ELSE Then(CallProvider(id, tool_name, arguments,
                           DictGet(arguments, "location", None), env),
              LAMBDA answer :
                 IF ~Truthy(DictGet(arguments, "location", None))
                 THEN Raise(ERROR_LOCATION_REQUIRED)
                 ELSE Return(answer))

RunTool(id, tool_name, arguments, env) ==
    IF arguments.kind # "obj" THEN Raise(NoAttribute(arguments, "get"))
    ELSE IF ~Truthy(DictGet(arguments, "location", None))
    THEN Raise(ERROR_LOCATION_REQUIRED)
    ELSE CallProvider(id, tool_name, arguments, DictGet(arguments, "location", None), env)

ToolErrorText(tool_name, msg) ==
    "Error executing tool '" \o PyStr(tool_name) \o "': " \o msg

IsRegisteredTool(tool_name) == tool_name.kind = "str" /\ tool_name.val \in ToolNames

\* handle_call_tool without its own except clause
handle_call_tool_Uncaught(req, env) ==
    IF ~Truthy(req.params) \/ ~HasKey(req.params, "name")
    THEN Return(ErrorResponse(req.id, InvalidParams, "Missing tool name"))
    ELSE LET tool_name == req.params.val["name"]
             arguments == DictGet(req.params, "arguments", EmptyDict)
         IN  IF IsRegisteredTool(tool_name)
             THEN RunTool(req.id, tool_name.val, arguments, env)
             ELSE Return(ErrorResponse(req.id, MethodNotFound,
                                       "Unknown tool: " \o PyStr(tool_name)))

\* handle_call_tool whose except clause logs and does not return
handle_call_tool_SilentExcept(req, env) ==
    IF ~Truthy(req.params) \/ ~HasKey(req.params, "name")
    THEN Return(ErrorResponse(req.id, InvalidParams, "Missing tool name"))
    ELSE LET tool_name == req.params.val["name"]
             arguments == DictGet(req.params, "arguments", EmptyDict)
         IN  IF IsRegisteredTool(tool_name)
             THEN Except(RunTool(req.id, tool_name.val, arguments, env),
                         LAMBDA msg : Return(None))
             ELSE Return(ErrorResponse(req.id, MethodNotFound,
                                       "Unknown tool: " \o PyStr(tool_name)))

handle_call_tool(req, env) ==
    IF ~Truthy(req.params) \/ ~HasKey(req.params, "name")
    THEN Return(ErrorResponse(req.id, InvalidParams, "Missing tool name"))
    ELSE LET tool_name == req.params.val["name"]
             arguments == DictGet(req.params, "arguments", EmptyDict)
         IN  IF IsRegisteredTool(tool_name)
             THEN Except(RunTool(req.id, tool_name.val, arguments, env),
                         LAMBDA msg :
                            Return(ToolResult(req.id, ToolErrorText(tool_name, msg), TRUE)))
             ELSE Return(ErrorResponse(req.id, MethodNotFound,
                                       "Unknown tool: " \o PyStr(tool_name)))

---------------------------------------------------------------------------
(* The dispatcher, server/mcp_server.py *)

ExactMethods ==
    {"initialize", "resources/list", "resources/read", "tools/list", "tools/call",
     "prompts/list", "prompts/get", "completion/complete"}

NotificationPrefix == "notifications/"

\* IsNotification with the prefix written without its slash
IsNotification_NoSlash(method) == StartsWith(method, "notifications")

\* IsNotification matching the two notification methods the handler names
IsNotification_KnownOnly(method) ==
    method \in {"notifications/cancelled", "notifications/progress"}

IsNotification(method) == StartsWith(method, NotificationPrefix)

\* The if/elif chain of the try block: what the selected handler does.
Dispatch(req, env) ==
    CASE req.method = "initialize"          -> handle_initialize(req)
      [] req.method = "resources/list"      -> handle_list_resources(req)
      [] req.method = "resources/read"      -> handle_read_resource(req)
      [] req.method = "tools/list"          -> handle_list_tools(req)
      [] req.method = "tools/call"          -> handle_call_tool(req, env)
      [] req.method = "prompts/list"        -> handle_list_prompts(req)
      [] req.method = "prompts/get"         -> handle_get_prompt(req)
      [] req.method = "completion/complete" -> handle_completion(req)
      [] OTHER ->
           IF IsNotification(req.method) THEN handle_notification(req)
           ELSE Return(ErrorResponse(req.id, MethodNotFound,
                                     "Method not found: " \o req.method))

\* InternalErrorResponse without the exception's message
InternalErrorResponse_NoMessage(req, msg) ==
    ErrorResponse(req.id, InternalError, "Internal error")

\* except Exception as e: the -32603 envelope
InternalErrorResponse(req, msg) ==
    ErrorResponse(req.id, InternalError, "Internal error: " \o msg)

\* What a call that returns hands to its caller
Value(outcome) == outcome.val

process_mcp_request(req, env) ==
    Value(Except(Dispatch(req, env), LAMBDA msg : Return(InternalErrorResponse(req, msg))))

\* str(e) of the exception that reaches the except clause, if one does
RaisedBy(outcome) ==
    IF outcome.kind = "raise" THEN [kind |-> "exc", msg |-> outcome.msg] ELSE NoExc

---------------------------------------------------------------------------
(* The frames a client sends *)

Ids == {JStr("1"), JInt(1)}

Methods ==
    ExactMethods
    \cup {"notifications/cancelled", "notifications/progress", "notifications/",
          "notifications/foo", "notifications", "foo/bar", "invalid/method",
          "Initialize", "tools/call/", "prompts"}

\* A dict with the one key, or with no key when the value is left out
Field(key, values) == {<<>>} \cup {(key :> v) : v \in values}

LocationValues ==
    {None, JStr(""), JInt(0), JStr("Paris"), JStr("new york"), JStr("Atlantis"), JInt(5)}

\* The locations that pass "if not location"
GivenLocations == {JStr("Paris"), JStr("Atlantis"), JInt(5)}

WithLocation(key, values) ==
    {JObj(("location" :> l) @@ (key :> v)) : l \in GivenLocations, v \in values}

\* arguments of any tool or prompt
BasicArguments ==
    {None, JStr("Paris"), JInt(5)}
    \cup {JObj(l) : l \in Field("location", LocationValues)}

NameValues ==
    {JStr("get_weather"), JStr("get_forecast"), JStr("get_weather_insights"),
     JStr("get_weather_summary_advisory")}
    \cup {JStr("weather_analysis"), JStr("outfit_recommendation"),
          JStr("unknown_tool"), JStr("Get_Weather"), JStr(""), None, JInt(5)}

UriValues ==
    {JStr("weather://current"), JStr("weather://forecast"), JStr("weather://other"),
     JStr("weather://current/"), JStr(""), None, JInt(5)}

\* params of any method
CommonParams ==
    {None, EmptyDict, JObj("requestId" :> JInt(1)), JObj("arguments" :> EmptyDict),
     JObj("name" :> JStr("get_weather")), JObj("name" :> JStr("weather_analysis")),
     JObj("uri" :> JStr("weather://current"))}

NamedWith(name, arguments) == {JObj(("name" :> JStr(name)) @@ ("arguments" :> a)) : a \in arguments}

\* params of tools/call and prompts/get: every name with the basic arguments,
\* and each tool and prompt with values of its own optional arguments
NamedParams ==
    {JObj(("name" :> n) @@ a) : n \in NameValues, a \in Field("arguments", BasicArguments)}
    \cup NamedWith("get_weather",
                   WithLocation("units", {JStr("metric"), JStr("imperial")}))
    \cup NamedWith("get_forecast",
                   WithLocation("days", {JInt(0), JInt(3), JInt(-1), JStr("3")}))
    \cup NamedWith("get_weather_insights",
                   WithLocation("activity", {JStr("hiking"), JStr("Running"), JInt(5)}))
    \cup NamedWith("weather_analysis",
                   WithLocation("activity", {JStr("hiking")}))

\* params of initialize: what a client sends of protocolVersion, capabilities
\* and clientInfo
InitializeParams ==
    {JObj("protocolVersion" :> v) : v \in {JStr("2024-11-05"), JStr("1999-01-01"), JInt(1)}}
    \cup {JObj(("protocolVersion" :> JStr("2025-03-26"))
               @@ ("capabilities" :> EmptyDict)
               @@ ("clientInfo" :> JObj("name" :> JStr("client")))),
          JObj("capabilities" :> JObj("tools" :> EmptyDict))}

ResourceParams == {JObj("uri" :> u) : u \in UriValues}

ParamsOf(method) ==
    CommonParams
    \cup (IF method \in {"tools/call", "prompts/get"} THEN NamedParams ELSE {})
    \cup (IF method = "resources/read" THEN ResourceParams ELSE {})
    \cup (IF method = "initialize" THEN InitializeParams ELSE {})

Envelope(id, method, params_field) ==
    JObj(("jsonrpc" :> JStr("2.0")) @@ ("id" :> id) @@ ("method" :> JStr(method))
         @@ params_field)

WellFormedFrames ==
    {Envelope(id, m, <<>>) : id \in Ids, m \in Methods}
    \cup UNION {{Envelope(id, m, ("params" :> p)) : id \in Ids, p \in ParamsOf(m)}
                : m \in Methods}

NotJson == [kind |-> "notjson"]

MalformedFrames ==
    {NotJson, JStr("initialize"), EmptyDict,
     JObj("id" :> JInt(1)),
     JObj("method" :> JStr("initialize")),
     JObj(("id" :> None) @@ ("method" :> JStr("initialize"))),
     JObj(("id" :> JInt(1)) @@ ("method" :> None)),
     JObj(("id" :> JInt(1)) @@ ("method" :> JStr("tools/list"))
          @@ ("params" :> JStr("x")))}

Frames == WellFormedFrames \cup MalformedFrames

\* No backend has been involved: the request at hand is not a tool call
NotCalled == [kind |-> "none"]
NoBackend == [upstream |-> NotCalled, llm |-> NotCalled]

\* What the providers' backends do during one call
Env(upstream, llm) ==
    [api_key |-> weather_api_key, upstream |-> upstream,
     llm_set |-> llm_configured, llm |-> llm]

---------------------------------------------------------------------------
(* The transports, server/mcp_server.py *)

Init ==
    /\ transport \in {"http", "ws"}
    /\ weather_api_key \in BOOLEAN
    /\ llm_configured \in BOOLEAN
    /\ pc = "receive"
    /\ request = Unset
    /\ response = Unset
    /\ handler_exc = NoExc
    /\ ws_in = <<>>
    /\ ws_out = <<>>
    /\ http_status = 0
    /\ backend = NoBackend
    /\ initialized = FALSE
    /\ ws_sent = Unset
    /\ close_reason = "none"
    /\ provider_calls = <<>>
    /\ direct_call = Unset
    /\ ws_data = Unset
    /\ client_gone = FALSE
    /\ meanwhile = Unset
    /\ direct_result = Unset

\* WsReceive reading the next frame without awaiting the dispatcher and the
\* send of the frame before it
WsReceive_Pipelined ==
    /\ transport = "ws"
    /\ pc \in {"receive", "dispatch", "send"}
    /\ Len(ws_in) < MaxFrames
    /\ \E frame \in Frames :
         IF ValidEnvelope(frame)
         THEN /\ request' = MCPRequest(frame)
              /\ ws_in' = Append(ws_in, frame.val["id"])
              /\ pc' = "dispatch"
              /\ ws_data' = frame
              /\ UNCHANGED close_reason
         ELSE /\ pc' = "closed"
              /\ close_reason' = "malformed"
              /\ ws_data' = frame
              /\ UNCHANGED <<request, ws_in>>
    /\ ws_sent' = Unset
    /\ UNCHANGED <<transport, weather_api_key, llm_configured, backend,
                   initialized, response, handler_exc, ws_out, http_status,
                   provider_calls, direct_call, direct_result,
                   client_gone, meanwhile>>

\* WsReceive reading a notifications/cancelled while a request is being
\* dispatched, and abandoning that request
WsReceive_CancelInFlight ==
    /\ transport = "ws"
    /\ \/ /\ pc = "receive"
          /\ Len(ws_in) < MaxFrames
          /\ \E frame \in Frames :
               IF ValidEnvelope(frame)
               THEN /\ request' = MCPRequest(frame)
                    /\ ws_in' = Append(ws_in, frame.val["id"])
                    /\ pc' = "dispatch"
                    /\ ws_data' = frame
                    /\ UNCHANGED close_reason
               ELSE /\ pc' = "closed"
                    /\ close_reason' = "malformed"
                    /\ ws_data' = frame
                    /\ UNCHANGED <<request, ws_in>>
       \/ /\ pc = "dispatch"
          /\ request' = Unset
          /\ pc' = "receive"
          /\ ws_data' = Unset
          /\ UNCHANGED <<ws_in, close_reason>>
    /\ ws_sent' = Unset
    /\ UNCHANGED <<transport, weather_api_key, llm_configured, backend,
                   initialized, response, handler_exc, ws_out, http_status,
                   provider_calls, direct_call, direct_result,
                   client_gone, meanwhile>>

\* data = await websocket.receive_text(); json.loads(data); MCPRequest(**...).
\* A frame that does not validate raises into the except clause, which closes.
\* the loop going on to the next frame after one it cannot parse
WsReceive_SkipMalformed ==
    /\ transport = "ws"
    /\ pc = "receive"
    /\ Len(ws_in) < MaxFrames
    /\ \E frame \in Frames :
         IF ValidEnvelope(frame)
         THEN /\ request' = MCPRequest(frame)
              /\ ws_in' = Append(ws_in, frame.val["id"])
              /\ pc' = "dispatch"
              /\ ws_data' = frame
              /\ UNCHANGED close_reason
         ELSE /\ pc' = "receive"
              /\ ws_data' = frame
              /\ UNCHANGED <<request, ws_in, close_reason>>
    /\ ws_sent' = Unset
    /\ UNCHANGED <<transport, weather_api_key, llm_configured, backend,
                   initialized, response, handler_exc, ws_out, http_status,
                   provider_calls, direct_call, direct_result,
                   client_gone, meanwhile>>

WsReceive ==
    /\ transport = "ws"
    /\ pc = "receive"
    /\ Len(ws_in) < MaxFrames
    /\ \E frame \in Frames :
         IF ValidEnvelope(frame)
         THEN /\ request' = MCPRequest(frame)
              /\ ws_in' = Append(ws_in, frame.val["id"])
              /\ pc' = "dispatch"
              /\ ws_data' = frame
              /\ UNCHANGED close_reason
         ELSE /\ pc' = "closed"
              /\ close_reason' = "malformed"
              /\ ws_data' = frame
              /\ UNCHANGED <<request, ws_in>>
    /\ ws_sent' = Unset
    /\ UNCHANGED <<transport, weather_api_key, llm_configured, backend,
                   initialized, response, handler_exc, ws_out, http_status,
                   provider_calls, direct_call, direct_result,
                   client_gone, meanwhile>>

\* receive_text raises WebSocketDisconnect when the client goes away.
WsDisconnect ==
    /\ transport = "ws"
    /\ pc = "receive"
    /\ pc' = "closed"
    /\ close_reason' = "disconnect"
    /\ UNCHANGED <<transport, weather_api_key, llm_configured, backend,
                   initialized, request, response, handler_exc, ws_in, ws_out,
                   http_status, ws_sent, provider_calls, direct_call, direct_result, ws_data,
                   client_gone, meanwhile>>

\* The provider calls of handle_call_tool give the event loop back while a
\* backend answers: `await client.get(...)` (weather_service.py:36) when an
\* API key is set, `await chain.arun(...)` (langchain_integration.py:75,
\* 141, 151) when a language model is configured.  Without them the calls
\* run to their end without suspending.

\* The request reaches a provider, and the provider asks the weather API
AwaitsWeather(req) ==
    /\ weather_api_key
    /\ Dispatch(req, Env(NotCalled, NotCalled)).calls # <<>>

\* The request reaches an insight method, whose get_weather has returned with
\* what the weather API answered, and the method asks the language model (the
\* two completions of the summary and advisory are awaited one after the
\* other; they are one answer here)
AwaitsLlm(req, upstream) ==
    /\ llm_configured
    /\ Dispatch(req, Env(NotCalled, NotCalled)).calls # <<>>
    /\ req.params.val["name"].val
         \in {"get_weather_insights", "get_weather_summary_advisory"}
    /\ get_weather(DictGet(DictGet(req.params, "arguments", EmptyDict),
                           "location", None),
                   JStr("metric"), weather_api_key, upstream).kind = "return"

\* process_mcp_request returns, the backends having answered upstream and llm
Complete(upstream, llm) ==
    /\ response' = process_mcp_request(request, Env(upstream, llm))
    /\ handler_exc' = RaisedBy(Dispatch(request, Env(upstream, llm)))
    /\ backend' = [upstream |-> upstream, llm |-> llm]
    /\ pc' = "send"

\* process_mcp_request is suspended at the next await
Suspend(at, upstream, llm) ==
    /\ pc' = at
    /\ backend' = [upstream |-> upstream, llm |-> llm]
    /\ UNCHANGED <<response, handler_exc>>

\* ProcessRequest refusing every method until the connection has had its
\* initialize
ProcessRequest_RequiresInitialize ==
    /\ pc = "dispatch"
    /\ provider_calls' = Dispatch(request, Env(NotCalled, NotCalled)).calls
    /\ IF transport = "ws" /\ ~initialized /\ request.method # "initialize"
       THEN /\ response' = ErrorResponse(request.id, InternalError,
                                         "Server not initialized")
            /\ handler_exc' = NoExc
            /\ backend' = NoBackend
            /\ pc' = "send"
       ELSE IF AwaitsWeather(request) THEN Suspend("await_weather", NotCalled, NotCalled)
       ELSE IF AwaitsLlm(request, NotCalled) THEN Suspend("await_llm", NotCalled, NotCalled)
       ELSE Complete(NotCalled, NotCalled)
    /\ UNCHANGED <<transport, weather_api_key, llm_configured, initialized,
                   request, ws_in, ws_out, http_status, ws_sent, close_reason,
                   direct_call, direct_result, ws_data,
                   client_gone, meanwhile>>

\* response = await self.process_mcp_request(request), on either transport:
\* the dispatcher and the handler run up to the first await of a backend, or
\* to their end when there is none
ProcessRequest ==
    /\ pc = "dispatch"
    /\ provider_calls' = Dispatch(request, Env(NotCalled, NotCalled)).calls
    /\ IF AwaitsWeather(request) THEN Suspend("await_weather", NotCalled, NotCalled)
       ELSE IF AwaitsLlm(request, NotCalled) THEN Suspend("await_llm", NotCalled, NotCalled)
       ELSE Complete(NotCalled, NotCalled)
    /\ UNCHANGED <<transport, weather_api_key, llm_configured, initialized,
                   request, ws_in, ws_out, http_status, ws_sent, close_reason,
                   direct_call, direct_result, ws_data,
                   client_gone, meanwhile>>

\* The weather API answers (or the request to it fails) and get_weather
\* resumes; the handler runs on to the await of the language model, or to its
\* end
WeatherAnswers ==
    /\ pc = "await_weather"
    /\ \E upstream \in UpstreamOutcomes :
         IF AwaitsLlm(request, upstream)
         THEN Suspend("await_llm", upstream, NotCalled)
         ELSE Complete(upstream, NotCalled)
    /\ UNCHANGED <<transport, weather_api_key, llm_configured, initialized,
                   request, ws_in, ws_out, http_status, ws_sent, close_reason,
                   provider_calls, direct_call, direct_result, ws_data,
                   client_gone, meanwhile>>

\* The language model answers one completion (or the call to it raises).
\* _generate_ai_summary_and_advisory asks for two, the summary and then the
\* advisory: the summary answered, it is suspended again at the await of
\* the advisory.  Otherwise the handler runs to its end: with the
\* completions, or into the except clause of the call that raised.
LlmAnswers ==
    /\ pc = "await_llm"
    /\ \E llm \in LlmOutcomes :
         IF /\ llm.kind = "ok"
            /\ backend.llm = NotCalled
            /\ request.params.val["name"].val = "get_weather_summary_advisory"
         THEN Suspend("await_llm", backend.upstream, llm)
         ELSE Complete(backend.upstream, llm)
    /\ UNCHANGED <<transport, weather_api_key, llm_configured, initialized,
                   request, ws_in, ws_out, http_status, ws_sent, close_reason,
                   provider_calls, direct_call, direct_result, ws_data,
                   client_gone, meanwhile>>

\* While process_mcp_request is suspended the event loop runs other
\* callbacks: a POST /mcp of another client, a valid envelope of a method
\* that has no await, is served from start to end by the same server
\* object; and so is the next one.
ServeMeanwhile ==
    /\ pc \in {"await_weather", "await_llm"}
    /\ \E other \in
            {[id |-> JStr("1"), method |-> "tools/list", params |-> None],
             [id |-> JInt(2), method |-> "resources/read",
              params |-> JObj("uri" :> JStr("weather://current"))],
             [id |-> JInt(3), method |-> "notifications/cancelled",
              params |-> JObj("requestId" :> JInt(1))]} :
         meanwhile' = [request |-> other,
                       response |-> process_mcp_request(other,
                                                        Env(NotCalled, NotCalled))]
    /\ UNCHANGED <<transport, weather_api_key, llm_configured, pc, request,
                   response, handler_exc, ws_in, ws_out, http_status, backend,
                   initialized, ws_sent, close_reason, provider_calls,
                   direct_call, direct_result, ws_data, client_gone>>

\* The client of the connection goes away while its request is in hand; the
\* endpoint does not notice before it sends.
ClientGoesAway ==
    /\ transport = "ws"
    /\ pc \in {"dispatch", "await_weather", "await_llm", "send"}
    /\ ~client_gone
    /\ client_gone' = TRUE
    /\ UNCHANGED <<transport, weather_api_key, llm_configured, pc, request,
                   response, handler_exc, ws_in, ws_out, http_status, backend,
                   initialized, ws_sent, close_reason, provider_calls,
                   direct_call, direct_result, ws_data, meanwhile>>

\* WsSend serialising with the null fields left out
WsSend_ExcludeNone ==
    /\ transport = "ws"
    /\ pc = "send"
    /\ IF ~IsResponse(response)
       THEN /\ pc' = "closed"
            /\ close_reason' = "send_failed"
            /\ UNCHANGED <<request, response, handler_exc, ws_out, backend,
                           initialized, ws_sent, provider_calls, ws_data>>
       ELSE IF client_gone
       THEN /\ pc' = "closed"
            /\ close_reason' = "client_gone"
            /\ UNCHANGED <<request, response, handler_exc, ws_out, backend,
                           initialized, ws_sent, provider_calls, ws_data>>
       ELSE /\ ws_out' = Append(ws_out, response.id)
            /\ pc' = "receive"
            /\ request' = Unset
            /\ response' = Unset
            /\ handler_exc' = NoExc
            /\ backend' = NoBackend
            /\ initialized' = (initialized \/ request.method = "initialize")
            /\ ws_sent' = IF response.error = None
                          THEN [kind |-> response.kind, jsonrpc |-> response.jsonrpc,
                                id |-> response.id, result |-> response.result]
                          ELSE [kind |-> response.kind, jsonrpc |-> response.jsonrpc,
                                id |-> response.id, error |-> response.error]
            /\ provider_calls' = <<>>
            /\ ws_data' = Unset
            /\ UNCHANGED close_reason
    /\ meanwhile' = Unset
    /\ UNCHANGED <<transport, weather_api_key, llm_configured, ws_in,
                   http_status, direct_call, direct_result,
                   client_gone>>

\* await websocket.send_text(response.model_dump_json()); None has no
\* model_dump_json, and the AttributeError closes the connection.  When the
\* client has gone away send_text raises WebSocketDisconnect: the except
\* clause closes, and the response is not delivered.
WsSend ==
    /\ transport = "ws"
    /\ pc = "send"
    /\ IF ~IsResponse(response)
       THEN /\ pc' = "closed"
            /\ close_reason' = "send_failed"
            /\ UNCHANGED <<request, response, handler_exc, ws_out, backend,
                           initialized, ws_sent, provider_calls, ws_data>>
       ELSE IF client_gone
       THEN /\ pc' = "closed"
            /\ close_reason' = "client_gone"
            /\ UNCHANGED <<request, response, handler_exc, ws_out, backend,
                           initialized, ws_sent, provider_calls, ws_data>>
       ELSE /\ ws_out' = Append(ws_out, response.id)
            /\ pc' = "receive"
            /\ request' = Unset
            /\ response' = Unset
            /\ handler_exc' = NoExc
            /\ backend' = NoBackend
            /\ initialized' = (initialized \/ request.method = "initialize")
            /\ ws_sent' = response
            /\ provider_calls' = <<>>
            /\ ws_data' = Unset
            /\ UNCHANGED close_reason
    /\ meanwhile' = Unset
    /\ UNCHANGED <<transport, weather_api_key, llm_configured, ws_in,
                   http_status, direct_call, direct_result,
                   client_gone>>

\* The body of POST /mcp is validated as an MCPRequest before the route
\* function runs; a body that does not validate is answered with 422.
HttpReceive ==
    /\ transport = "http"
    /\ pc = "receive"
    /\ \E frame \in Frames :
         IF ValidEnvelope(frame)
         THEN /\ request' = MCPRequest(frame)
              /\ pc' = "dispatch"
              /\ UNCHANGED http_status
         ELSE /\ http_status' = 422
              /\ pc' = "done"
              /\ UNCHANGED request
    /\ UNCHANGED <<transport, weather_api_key, llm_configured, backend,
                   initialized, response, handler_exc, ws_in, ws_out, ws_sent,
                   close_reason, provider_calls, direct_call, direct_result, ws_data,
                   client_gone, meanwhile>>

\* The route declares response_model=MCPResponse: a returned MCPResponse is
\* serialized with status 200, a returned None fails the response validation
\* and is answered with 500.
HttpRespond ==
    /\ transport = "http"
    /\ pc = "send"
    /\ http_status' = IF IsResponse(response) THEN 200 ELSE 500
    /\ pc' = "done"
    /\ meanwhile' = Unset
    /\ UNCHANGED <<transport, weather_api_key, llm_configured, backend,
                   initialized, request, response, handler_exc, ws_in, ws_out,
                   ws_sent, close_reason, provider_calls, direct_call, direct_result, ws_data,
                   client_gone>>

Next ==
    \/ WsReceive
    \/ WsDisconnect
    \/ ClientGoesAway
    \/ ProcessRequest
    \/ WeatherAnswers
    \/ LlmAnswers
    \/ ServeMeanwhile
    \/ WsSend
    \/ HttpReceive
    \/ HttpRespond

Spec == Init /\ [][Next]_vars

---------------------------------------------------------------------------
(* The providers called on their own: the methods of WeatherService and of  *)
(* WeatherLangChainService with the arguments handle_call_tool hands them.  *)

\* location as a caller passes it: any capitalisation of a known city, an
\* unknown city, a JSON number
ProviderLocations ==
    {JStr("Paris"), JStr("PARIS"), JStr("paris"), JStr("pArIs"), JStr("New York"),
     JStr("new york"), JStr("LONDON"), JStr("Tokyo"), JStr("sydney"),
     JStr("Atlantis"), JStr("Paris "), JInt(5)}

ProviderUnits == {JStr("metric"), JStr("imperial"), JStr("standard")}

ProviderDays == {JInt(n) : n \in 0..MaxDays} \cup {JStr("3")}

ProviderActivities ==
    {JStr("general"), JStr("hiking"), JStr("Running"), JStr("picnic"), JInt(5)}

\* get_forecast requests: days absent, or a number of days
ForecastRequests ==
    {[jsonrpc |-> "2.0", id |-> JInt(1), method |-> "tools/call",
      params |-> JObj(("name" :> JStr("get_forecast")) @@ ("arguments" :> JObj(a)))]
       : a \in {("location" :> JStr("Paris")) @@ d
                  : d \in Field("days", {JInt(n) : n \in 0..MaxDays})}}

ProviderInit ==
    /\ transport = "direct"
    /\ weather_api_key \in BOOLEAN
    /\ llm_configured \in BOOLEAN
    /\ pc = "receive"
    /\ request = Unset
    /\ response = Unset
    /\ handler_exc = NoExc
    /\ ws_in = <<>>
    /\ ws_out = <<>>
    /\ http_status = 0
    /\ backend = NoBackend
    /\ initialized = FALSE
    /\ ws_sent = Unset
    /\ close_reason = "none"
    /\ provider_calls = <<>>
    /\ direct_call = Unset
    /\ ws_data = Unset
    /\ client_gone = FALSE
    /\ meanwhile = Unset
    /\ direct_result = Unset

\* What a direct call leaves alone
ServerUnchanged ==
    UNCHANGED <<transport, weather_api_key, llm_configured, request, response,
                handler_exc, ws_in, ws_out, http_status, initialized,
                ws_sent, close_reason, provider_calls, ws_data, client_gone>>

\* What the called method returns or raises, the backends having answered
\* env.upstream and env.llm
DirectOutcome(call, env) ==
    CASE call.method = "_get_mock_weather" ->
           get_mock_weather(call.location, call.units)
      [] call.method = "get_weather" ->
           get_weather(call.location, call.units, env.api_key, env.upstream)
      [] call.method = "get_weather_forecast" ->
           get_weather_forecast(call.location, call.days, env.api_key, env.upstream)
      [] call.method = "handle_call_tool" ->
           handle_call_tool(call.request, env)
      [] call.method = "get_weather_insights" ->
           get_weather_insights(call.location, call.activity, env)
      [] call.method = "get_weather_summary_and_advisory" ->
           get_weather_summary_and_advisory(call.location, env)

\* The call asks the weather API: every method but _get_mock_weather goes
\* through get_weather
DirectAwaitsWeather(call) ==
    weather_api_key /\ call.method # "_get_mock_weather"

\* The call asks the language model, get_weather having returned
DirectAwaitsLlm(call, upstream) ==
    /\ llm_configured
    /\ call.method \in {"get_weather_insights", "get_weather_summary_and_advisory"}
    /\ get_weather(call.location, JStr("metric"), weather_api_key, upstream).kind
         = "return"

\* The call returns or raises
DirectComplete(call, upstream, llm) ==
    /\ direct_result' = DirectOutcome(call, Env(upstream, llm))
    /\ backend' = [upstream |-> upstream, llm |-> llm]
    /\ pc' = "receive"

\* The call is suspended at an await, its result outstanding
DirectSuspend(at, upstream, llm) ==
    /\ pc' = at
    /\ backend' = [upstream |-> upstream, llm |-> llm]
    /\ direct_result' = Unset

\* A provider method is called: it runs to its first await, or to its end
\* when it has none.  The provider objects keep nothing from one call to the
\* next (their fields are set in __init__ only), so a later call finds the
\* object as the first found it: once a call has returned or raised, the call
\* that follows is taken with the same arguments.
Called(call) ==
    /\ pc = "receive"
    /\ direct_call \in {Unset, call}
    /\ direct_call' = call
    /\ IF DirectAwaitsWeather(call) THEN DirectSuspend("await_weather", NotCalled, NotCalled)
       ELSE IF DirectAwaitsLlm(call, NotCalled) THEN DirectSuspend("await_llm", NotCalled, NotCalled)
       ELSE DirectComplete(call, NotCalled, NotCalled)
    /\ UNCHANGED meanwhile
    /\ ServerUnchanged

\* WeatherService._get_mock_weather(location, units)
CallGetMockWeather ==
    \E location \in ProviderLocations, units \in ProviderUnits :
       Called([method |-> "_get_mock_weather", location |-> location,
               units |-> units])

\* WeatherService.get_weather(location, units)
CallGetWeather ==
    \E location \in ProviderLocations, units \in ProviderUnits :
       Called([method |-> "get_weather", location |-> location, units |-> units])

\* WeatherService.get_weather_forecast(location, days)
CallGetWeatherForecast ==
    \E location \in ProviderLocations, days \in ProviderDays :
       Called([method |-> "get_weather_forecast", location |-> location,
               days |-> days])

\* handle_call_tool(request) for the get_forecast tool
CallForecastTool ==
    \E req \in ForecastRequests :
       Called([method |-> "handle_call_tool", request |-> req])

\* WeatherLangChainService.get_weather_insights(location, activity)
CallGetWeatherInsights ==
    \E location \in ProviderLocations, activity \in ProviderActivities :
       Called([method |-> "get_weather_insights", location |-> location,
               activity |-> activity])

\* WeatherLangChainService.get_weather_summary_and_advisory(location)
CallGetWeatherSummaryAndAdvisory ==
    \E location \in ProviderLocations :
       Called([method |-> "get_weather_summary_and_advisory",
               location |-> location])

\* The weather API answers (or the request to it fails) and get_weather
\* resumes
DirectWeatherAnswers ==
    /\ pc = "await_weather"
    /\ \E upstream \in UpstreamOutcomes :
         IF DirectAwaitsLlm(direct_call, upstream)
         THEN DirectSuspend("await_llm", upstream, NotCalled)
         ELSE DirectComplete(direct_call, upstream, NotCalled)
    /\ UNCHANGED <<direct_call, meanwhile>>
    /\ ServerUnchanged

\* The language model answers one completion (or the call to it raises):
\* get_weather_summary_and_advisory, its summary answered, is suspended
\* again at the await of the advisory
DirectLlmAnswers ==
    /\ pc = "await_llm"
    /\ \E llm \in LlmOutcomes :
         IF /\ llm.kind = "ok"
            /\ backend.llm = NotCalled
            /\ direct_call.method = "get_weather_summary_and_advisory"
         THEN DirectSuspend("await_llm", backend.upstream, llm)
         ELSE DirectComplete(direct_call, backend.upstream, llm)
    /\ UNCHANGED <<direct_call, meanwhile>>
    /\ ServerUnchanged

\* While a call is suspended another caller calls the same object: the
\* other call runs to its own await of the weather API, its result
\* outstanding, or to its end when it has none.  One other call is followed
\* at a time: the next is taken once the last has returned or raised.
CallMeanwhile ==
    /\ pc \in {"await_weather", "await_llm"}
    /\ IF meanwhile = Unset THEN TRUE ELSE meanwhile.result # Unset
    /\ \E other \in
            {[method |-> "get_weather", location |-> JStr("London"),
              units |-> JStr("imperial")],
             [method |-> "_get_mock_weather", location |-> JStr("Tokyo"),
              units |-> JStr("metric")]} :
         meanwhile' =
            [call |-> other, upstream |-> NotCalled,
             result |-> IF DirectAwaitsWeather(other) THEN Unset
                        ELSE DirectOutcome(other, Env(NotCalled, NotCalled))]
    /\ UNCHANGED <<pc, backend, direct_call, direct_result>>
    /\ ServerUnchanged

\* The weather API answers the other call (or the request to it fails) and
\* it runs to its end, whether the first call is still suspended or has
\* returned since
MeanwhileAnswers ==
    /\ meanwhile # Unset
    /\ meanwhile.result = Unset
    /\ \E upstream \in UpstreamOutcomes :
         meanwhile' =
            [meanwhile EXCEPT
               !.upstream = upstream,
               !.result = DirectOutcome(meanwhile.call, Env(upstream, NotCalled))]
    /\ UNCHANGED <<pc, backend, direct_call, direct_result>>
    /\ ServerUnchanged

ProviderNext ==
    \/ CallGetMockWeather
    \/ CallGetWeather
    \/ CallGetWeatherForecast
    \/ CallForecastTool
    \/ CallGetWeatherInsights
    \/ CallGetWeatherSummaryAndAdvisory
    \/ DirectWeatherAnswers
    \/ DirectLlmAnswers
    \/ CallMeanwhile
    \/ MeanwhileAnswers

ProviderSpec == ProviderInit /\ [][ProviderNext]_vars

---------------------------------------------------------------------------
(* Properties.  Each is stated of the states in which process_mcp_request  *)
(* has returned for the request at hand: response then holds what it       *)
(* returned, an MCPResponse or None.                                       *)

Returned == response # Unset

\* The request's params is a dict that holds key.
ParamsHave(key) == request.params.kind = "obj" /\ key \in DOMAIN request.params.val

Param(key) == request.params.val[key]

\* An envelope-level error: the error is populated with the code, no result.
IsErrorWith(r, code) ==
    /\ IsResponse(r)
    /\ r.error # None
    /\ r.error.code = code
    /\ r.result = None

\* A result envelope of tools/call: one text block and the flag, no error.
IsToolResult(r, is_error) ==
    /\ IsResponse(r)
    /\ r.error = None
    /\ r.result # None
    /\ DOMAIN r.result = {"content", "isError"}
    /\ Len(r.result.content) = 1
    /\ r.result.content[1].type = "text"
    /\ r.result.isError = is_error

RecognizedMethod(method) ==
    \/ method \in {"initialize", "resources/list", "resources/read", "tools/list",
                   "tools/call", "prompts/list", "prompts/get", "completion/complete"}
    \/ StartsWith(method, "notifications/")

\* C1: for every request with a recognized method, what process_mcp_request
\* returns is a response whose id is the request's id, the same value of the
\* same type.
C1_IdEchoed ==
    (Returned /\ RecognizedMethod(request.method))
        => (IsResponse(response) /\ response.id = request.id)

\* C2: what process_mcp_request returns is a response object in which exactly
\* one of result and error is populated.
C2_ExactlyOneOfResultAndError ==
    Returned => (IsResponse(response) /\ ((response.result = None) # (response.error = None)))

\* C3: when the dispatched handler raises, process_mcp_request returns the
\* -32603 envelope with the exception's message in its message and the
\* request's id; it hands a value back, never the exception.
C3_HandlerFaultBecomesInternalError ==
    (Returned /\ handler_exc # NoExc)
        => /\ IsErrorWith(response, -32603)
           /\ Contains(response.error.message, handler_exc.msg)
           /\ response.id = request.id

C3_Witness ==
    /\ Returned
    /\ handler_exc # NoExc
    /\ request.method = "notifications/cancelled"
    /\ request.params = None
    /\ IsErrorWith(response, -32603)

\* C4: a method outside the recognized set is answered with -32601, no result
\* and a message that contains the method name; the eight names match by
\* exact, case-sensitive equality and notifications/ by prefix, so a recognized
\* method is never answered with "Method not found".
C4_UnknownMethodNotFound ==
    Returned =>
        IF RecognizedMethod(request.method)
        THEN ~(IsResponse(response) /\ response.error # None
               /\ StartsWith(response.error.message, "Method not found"))
        ELSE /\ IsErrorWith(response, -32601)
             /\ Contains(response.error.message, request.method)

C4_Witness ==
    /\ Returned
    /\ request.method = "Initialize"
    /\ IsErrorWith(response, -32601)
    /\ response.error.message = "Method not found: Initialize"

RegisteredToolNames ==
    {"get_weather", "get_forecast", "get_weather_insights",
     "get_weather_summary_advisory"}

NamesRegisteredTool ==
    /\ request.method = "tools/call"
    /\ ParamsHave("name")
    /\ Param("name").kind = "str"
    /\ Param("name").val \in RegisteredToolNames

\* The arguments of the call: params.arguments, {} when it is absent.
GivenArguments == IF ParamsHave("arguments") THEN Param("arguments") ELSE EmptyDict

LocationAbsent ==
    GivenArguments.kind = "obj" /\ "location" \notin DOMAIN GivenArguments.val

\* C5: tools/call with a name that is not registered is answered with -32601
\* and no result; with a registered name and no location argument it is
\* answered with a result whose isError is true, and no error.
C5_UnknownToolVersusMissingArgument ==
    (Returned /\ request.method = "tools/call" /\ ParamsHave("name")) =>
        IF NamesRegisteredTool
        THEN LocationAbsent => IsToolResult(response, TRUE)
        ELSE IsErrorWith(response, -32601)

C5_Witness ==
    /\ Returned
    /\ NamesRegisteredTool
    /\ Param("name").val = "get_weather_summary_advisory"
    /\ LocationAbsent
    /\ IsToolResult(response, TRUE)

ToolText == response.result.content[1].text

ToolFailureText(msg) ==
    "Error executing tool '" \o Param("name").val \o "': " \o msg

\* C6: a tools/call that names a registered tool is never answered with an
\* envelope-level error: it gets a result of one text block and isError.  A
\* failure inside the tool (arguments that is no mapping, a location that is
\* missing or empty, an exception out of the provider) gives isError = true
\* and the text "Error executing tool '<name>': <message>".
C6_ToolFailuresOnResultChannel ==
    (Returned /\ NamesRegisteredTool) =>
        /\ IsToolResult(response, TRUE) \/ IsToolResult(response, FALSE)
        /\ response.result.isError
             => StartsWith(ToolText, "Error executing tool '" \o Param("name").val \o "': ")
        /\ GivenArguments.kind = "null"
             => /\ IsToolResult(response, TRUE)
                /\ ToolText = ToolFailureText("'NoneType' object has no attribute 'get'")
        /\ GivenArguments.kind = "str"
             => /\ IsToolResult(response, TRUE)
                /\ ToolText = ToolFailureText("'str' object has no attribute 'get'")
        /\ (GivenArguments.kind = "obj"
            /\ (LocationAbsent \/ GivenArguments.val["location"] \in {None, JStr("")}))
             => /\ IsToolResult(response, TRUE)
                /\ ToolText = ToolFailureText("Location is required")
        /\ (GivenArguments.kind = "obj" /\ ~LocationAbsent
            /\ GivenArguments.val["location"] = JInt(5) /\ ~weather_api_key)
             => /\ IsToolResult(response, TRUE)
                /\ ToolText = ToolFailureText("'int' object has no attribute 'lower'")
        /\ (GivenArguments.kind = "obj" /\ ~LocationAbsent
            /\ GivenArguments.val["location"] = JStr("Paris")
            /\ Param("name").val = "get_forecast"
            /\ "days" \in DOMAIN GivenArguments.val
            /\ GivenArguments.val["days"] = JStr("3"))
             => /\ IsToolResult(response, TRUE)
                /\ ToolText = ToolFailureText("'str' object cannot be interpreted as an integer")

C6_Witness ==
    /\ Returned
    /\ NamesRegisteredTool
    /\ Param("name").val = "get_forecast"
    /\ GivenArguments.kind = "obj"
    /\ "days" \in DOMAIN GivenArguments.val
    /\ GivenArguments.val["days"] = JStr("3")
    /\ weather_api_key
    /\ IsToolResult(response, TRUE)
    /\ ToolText = ToolFailureText("'str' object cannot be interpreted as an integer")

\* The request lacks the top-level parameter: params is None or has no such key.
Lacks(key) == request.params = None \/ key \notin DOMAIN request.params.val

\* The request at hand with params.arguments = {} added
WithEmptyArguments ==
    [request EXCEPT !.params = JObj(request.params.val @@ ("arguments" :> EmptyDict))]

\* C7: tools/call without params.name, resources/read without params.uri and
\* prompts/get without params.name are answered with -32602 and no result,
\* also when params is None or empty; tools/call without params.arguments is
\* answered as the same call with arguments = {}.
C7_MissingTopLevelParameter ==
    Returned =>
        /\ (request.method = "tools/call" /\ Lacks("name"))
             => /\ IsErrorWith(response, -32602)
                /\ response.error.message = "Missing tool name"
        /\ (request.method = "resources/read" /\ Lacks("uri"))
             => IsErrorWith(response, -32602)
        /\ (request.method = "prompts/get" /\ Lacks("name"))
             => IsErrorWith(response, -32602)
        /\ (request.method = "tools/call" /\ ~Lacks("name") /\ Lacks("arguments"))
             => \E upstream \in UpstreamOutcomes, llm \in LlmOutcomes :
                   response = process_mcp_request(WithEmptyArguments, Env(upstream, llm))

C7_Witness ==
    /\ Returned
    /\ request.method = "prompts/get"
    /\ request.params = EmptyDict
    /\ IsErrorWith(response, -32602)

KnownPromptNames == {"weather_analysis", "outfit_recommendation"}

NamesKnownPrompt ==
    /\ request.method = "prompts/get"
    /\ ParamsHave("name")
    /\ Param("name").kind = "str"
    /\ Param("name").val \in KnownPromptNames

\* The template the claim describes, rendered from the request's arguments
ExpectedPromptText ==
    LET location == DictGet(GivenArguments, "location", JStr("New York"))
        activity == DictGet(GivenArguments, "activity", JStr("outdoor activities"))
    IN  IF Param("name").val = "weather_analysis"
        THEN WeatherAnalysisText(location, activity)
        ELSE OutfitRecommendationText(location)

\* C8: prompts/get with a known prompt name is answered with a result and no
\* error, the result holding the rendered template as one user message.
C8_KnownPromptRendered ==
    (Returned /\ NamesKnownPrompt /\ GivenArguments.kind = "obj"
     /\ \A k \in DOMAIN GivenArguments.val : GivenArguments.val[k].kind = "str")
        => /\ IsResponse(response)
           /\ response.error = None
           /\ response.result = PromptResult(Param("name"), ExpectedPromptText)

\* C9: prompts/get with a name that is present and is not a known prompt is
\* answered with -32601, a message that names the prompt, and no result.
C9_UnknownPromptNotFound ==
    (Returned /\ request.method = "prompts/get" /\ ParamsHave("name")
     /\ ~NamesKnownPrompt)
        => /\ IsErrorWith(response, -32601)
           /\ response.error.message = "Unknown prompt: " \o PyStr(Param("name"))

C9_Witness ==
    /\ Returned
    /\ request.method = "prompts/get"
    /\ ParamsHave("name")
    /\ Param("name") = JStr("unknown_tool")
    /\ GivenArguments = None
    /\ IsErrorWith(response, -32601)

\* C10: resources/read of weather://current and of weather://forecast returns
\* a result whose one contents entry echoes the uri and carries that resource's
\* static payload, the two payloads differing; any other uri is answered with
\* -32602 and no result.
C10_ResourceRead ==
    /\ CurrentResourceText # ForecastResourceText
    /\ (Returned /\ request.method = "resources/read" /\ ParamsHave("uri")) =>
         IF Param("uri") \in {JStr("weather://current"), JStr("weather://forecast")}
         THEN /\ IsResponse(response)
              /\ response.error = None
              /\ response.result # None
              /\ Len(response.result.contents) = 1
              /\ response.result.contents[1].uri = Param("uri")
              /\ response.result.contents[1].text =
                   IF Param("uri").val = "weather://current"
                   THEN CurrentResourceText ELSE ForecastResourceText
         ELSE IsErrorWith(response, -32602)

C10_Witness ==
    /\ Returned
    /\ request.method = "resources/read"
    /\ ParamsHave("uri")
    /\ Param("uri") = JStr("weather://forecast")
    /\ IsResponse(response)
    /\ response.result # None
    /\ response.result.contents[1].text = ForecastResourceText

\* C11: notifications/cancelled and notifications/progress are answered with
\* result = {} and no error, whatever the params are, None included.
C11_NotificationsNeverFail ==
    (Returned /\ request.method \in {"notifications/cancelled", "notifications/progress"})
        => /\ IsResponse(response)
           /\ response.error = None
           /\ response.result = EmptyResult

\* What handle_notification gives for the request at hand
NotificationAnswer ==
    {MCPResponse(request.id, EmptyResult, None),
     InternalErrorResponse(request, NoAttribute(request.params, "get"))}

\* C12: a method that begins with notifications/ is answered by the
\* notification handler whatever its suffix, never with -32601; the method
\* notifications, without the slash, is answered with -32601.
C12_NotificationPrefixRouted ==
    Returned =>
        /\ StartsWith(request.method, "notifications/")
             => /\ response \in NotificationAnswer
                /\ ~IsErrorWith(response, -32601)
        /\ request.method = "notifications"
             => IsErrorWith(response, -32601)

C12_Witness ==
    /\ Returned
    /\ request.method = "notifications/foo"
    /\ IsResponse(response)
    /\ response.error = None
    /\ response.result = EmptyResult

\* C13: initialize is answered with the same result for every params:
\* protocolVersion 2024-11-05, all three capabilities true and the fixed
\* serverInfo; it is never answered with an error.
C13_InitializeFixedResult ==
    (Returned /\ request.method = "initialize")
        => /\ IsResponse(response)
           /\ response.id = request.id
           /\ response.error = None
           /\ response.result # None
           /\ response.result.protocolVersion = "2024-11-05"
           /\ response.result.capabilities
                = [resources |-> TRUE, tools |-> TRUE, prompts |-> TRUE]
           /\ response.result.serverInfo
                = [name |-> "weather-mcp-server", version |-> "1.0.0"]

C13_Witness ==
    /\ Returned
    /\ request.method = "initialize"
    /\ ParamsHave("protocolVersion")
    /\ Param("protocolVersion") = JStr("1999-01-01")
    /\ IsResponse(response)
    /\ response.result # None
    /\ response.result.protocolVersion = "2024-11-05"

\* C14: on one WebSocket connection at most one request is in flight, a frame
\* is read only when every earlier request has its response sent, and the
\* k-th response sent carries the id of the k-th request received.
C14_OneFrameAtATime ==
    transport = "ws" =>
        /\ Len(ws_out) <= Len(ws_in)
        /\ Len(ws_in) <= Len(ws_out) + 1
        /\ \A k \in 1..Len(ws_out) : ws_out[k] = ws_in[k]
        /\ pc = "receive" => Len(ws_in) = Len(ws_out)
        /\ pc \in {"dispatch", "await_weather", "await_llm", "send"}
             => Len(ws_in) = Len(ws_out) + 1

C14_Witness ==
    /\ transport = "ws"
    /\ Len(ws_out) = 2
    /\ ws_in = <<JStr("1"), JInt(1)>>
    /\ ws_out = ws_in

\* The tool call at hand names a registered tool and passes "if not location"
PassesLocationCheck ==
    /\ NamesRegisteredTool
    /\ GivenArguments.kind = "obj"
    /\ Truthy(DictGet(GivenArguments, "location", None))

\* The weather API was called during the tool call at hand and failed
WeatherBackendFailed ==
    /\ PassesLocationCheck
    /\ weather_api_key
    /\ backend.upstream = UpstreamFailure

\* The language model was called during the tool call at hand and failed
LlmBackendFailed ==
    /\ PassesLocationCheck
    /\ Param("name").val \in {"get_weather_insights", "get_weather_summary_advisory"}
    /\ GivenArguments.val["location"].kind = "str"
    /\ llm_configured
    /\ backend.llm = LlmFailure

\* The client of the connection is there before and after the step
ClientStays == ~client_gone /\ ~client_gone'

\* C15: when the weather API or the language model fails during a tools/call
\* received on the WebSocket, process_mcp_request still returns a response for
\* the request, the response is sent to the client (a client that is still
\* there), and the loop goes on to read the next frame.
C15_ProviderFailureKeepsConnection ==
    [][(transport = "ws" /\ pc = "send" /\ (WeatherBackendFailed \/ LlmBackendFailed)
        /\ ClientStays)
          => /\ IsResponse(response)
             /\ response.id = request.id
             /\ pc' = "receive"
             /\ ws_out' = Append(ws_out, request.id)]_vars

C15_Witness ==
    /\ transport = "ws"
    /\ pc = "send"
    /\ ~client_gone
    /\ WeatherBackendFailed
    /\ LlmBackendFailed
    /\ IsToolResult(response, FALSE)

\* C16: on POST /mcp every well-formed envelope is answered with HTTP 200 and
\* one response envelope that carries the request's id, for results and for
\* envelope-level errors alike.
C16_HttpAlwaysAnswers ==
    (transport = "http" /\ pc = "done" /\ request # Unset)
        => /\ http_status = 200
           /\ IsResponse(response)
           /\ response.id = request.id

\* The request names a method, a tool or a prompt that does not exist
UnknownName ==
    \/ ~RecognizedMethod(request.method)
    \/ request.method = "tools/call" /\ ParamsHave("name") /\ ~NamesRegisteredTool
    \/ request.method = "prompts/get" /\ ParamsHave("name") /\ ~NamesKnownPrompt

\* The request lacks its required parameter, or reads a uri that is no resource
BadParams ==
    \/ request.method \in {"tools/call", "prompts/get"} /\ Lacks("name")
    \/ request.method = "resources/read" /\ Lacks("uri")
    \/ /\ request.method = "resources/read"
       /\ ParamsHave("uri")
       /\ Param("uri") \notin {JStr("weather://current"), JStr("weather://forecast")}

\* C17: an error returned by the dispatcher has one of the codes -32601,
\* -32602, -32603: -32601 only for an unknown method, tool or prompt, -32602
\* only for a missing required parameter or an unknown resource uri, -32603
\* only for an exception caught at the dispatch boundary.
C17_ErrorCodes ==
    (Returned /\ IsResponse(response) /\ response.error # None)
        => /\ response.error.code \in {-32601, -32602, -32603}
           /\ response.error.code = -32601 => UnknownName
           /\ response.error.code = -32602 => BadParams
           /\ response.error.code = -32603 => handler_exc # NoExc

C17_Witness ==
    /\ Returned
    /\ request.method = "resources/read"
    /\ ParamsHave("uri")
    /\ Param("uri") = JStr("weather://other")
    /\ IsErrorWith(response, -32602)
    /\ handler_exc = NoExc

\* C18 as stated: a tools/call of a registered tool whose location is present
\* and non-empty is answered with a result whose isError is false, whatever
\* the providers' keys and backends do.
C18_ProviderFailuresRecovered ==
    (Returned /\ PassesLocationCheck) => IsToolResult(response, FALSE)

\* The argument is absent or of the kind the tool's inputSchema declares
ArgumentIs(key, kind) ==
    key \in DOMAIN GivenArguments.val => GivenArguments.val[key].kind = kind

\* The arguments the named tool reads are of the types its inputSchema declares
SchemaTypedArguments ==
    /\ GivenArguments.val["location"].kind = "str"
    /\ Param("name").val = "get_weather" => ArgumentIs("units", "str")
    /\ Param("name").val = "get_forecast" => ArgumentIs("days", "int")
    /\ Param("name").val = "get_weather_insights" => ArgumentIs("activity", "str")

\* C18 as amended: a tools/call of a registered tool whose location is a
\* non-empty string, and whose optional argument the tool reads is absent or
\* of its declared type, is answered with a result whose isError is false,
\* whatever the providers' keys and backends do.
C18_ProviderFailuresRecoveredForTypedArguments ==
    (Returned /\ PassesLocationCheck /\ SchemaTypedArguments)
        => IsToolResult(response, FALSE)

C18_Witness ==
    /\ Returned
    /\ PassesLocationCheck
    /\ SchemaTypedArguments
    /\ Param("name").val = "get_weather_insights"
    /\ WeatherBackendFailed
    /\ LlmBackendFailed
    /\ IsToolResult(response, FALSE)
    /\ StartsWith(ToolText, "Weather Insights for Paris")

\* C19: what process_mcp_request returns is determined by the request, the
\* providers' configuration and what their backends answer in this call: it
\* is the same on either transport, whatever was processed before on the
\* connection, whether or not an initialize was answered first; for a method
\* other than tools/call the backends make no difference either.
C19_AnswerDependsOnRequestAlone ==
    Returned =>
        IF request.method = "tools/call"
        THEN response = process_mcp_request(request, Env(backend.upstream, backend.llm))
        ELSE \A upstream \in UpstreamOutcomes, llm \in LlmOutcomes :
                response = process_mcp_request(request, Env(upstream, llm))

C19_Witness ==
    /\ Returned
    /\ transport = "ws"
    /\ Len(ws_out) = 1
    /\ ~initialized
    /\ request.method = "tools/list"
    /\ IsResponse(response)
    /\ response.result # None

\* process_mcp_request is running or suspended for the request at hand
InHand(at) == at \in {"dispatch", "await_weather", "await_llm"}

\* C20: a request that is being dispatched is never abandoned: it stays the
\* request at hand until process_mcp_request hands its response to the
\* transport; dispatching a notifications/cancelled is one step that changes
\* nothing but the response to itself; and on the WebSocket a
\* notifications/cancelled is read only when every earlier request has had
\* its response sent; one that another client posts while a provider call is
\* outstanding leaves the request at hand and its provider call as they are.
C20_CancellationIsAdvisory ==
    [][/\ InHand(pc)
            => /\ InHand(pc') \/ pc' = "send"
               /\ request' = request
               /\ pc' = "send" => response' # Unset
       /\ (pc = "dispatch" /\ request.method = "notifications/cancelled"
           /\ client_gone' = client_gone)
            => /\ pc' = "send"
               /\ response' \in
                    {MCPResponse(request.id, EmptyResult, None),
                     InternalErrorResponse(request, NoAttribute(request.params, "get"))}
               /\ UNCHANGED <<weather_api_key, llm_configured, ws_in, ws_out,
                              initialized>>
       /\ (InHand(pc) /\ meanwhile' # meanwhile /\ meanwhile' # Unset
           /\ meanwhile'.request.method = "notifications/cancelled")
            => UNCHANGED <<pc, request, response, backend, provider_calls,
                           weather_api_key, llm_configured, ws_in, ws_out,
                           initialized>>
       /\ (transport = "ws" /\ pc = "receive" /\ pc' = "dispatch"
           /\ request'.method = "notifications/cancelled")
            => ws_out = ws_in]_vars

C20_Witness ==
    /\ transport = "ws"
    /\ pc = "send"
    /\ request.method = "notifications/cancelled"
    /\ ParamsHave("requestId")
    /\ ws_out = <<Param("requestId")>>
    /\ Len(ws_in) = 2
    /\ IsResponse(response)
    /\ response.result = EmptyResult

\* What the one dispatcher answers to the request at hand, given what the
\* providers' backends did
Answer == process_mcp_request(request, Env(backend.upstream, backend.llm))

\* C21: for the request at hand and the backends' outcome, POST /mcp and the
\* WebSocket deliver the same envelope, the dispatcher's answer with its id,
\* result and error: with status 200 on the one, as the frame sent on the
\* other to a client that is still there; and the one delivers an envelope
\* exactly when the other does.
C21_SameEnvelopeOnBothTransports ==
    [][(pc = "send" /\ ClientStays) =>
          IF IsResponse(Answer)
          THEN /\ transport = "http" => (http_status' = 200 /\ response' = Answer)
               /\ transport = "ws" => (ws_sent' = Answer /\ pc' = "receive")
          ELSE /\ transport = "http" => http_status' # 200
               /\ transport = "ws" => (ws_sent' = ws_sent /\ pc' = "closed")]_vars

C21_Witness ==
    /\ transport = "ws"
    /\ pc = "receive"
    /\ ws_sent # Unset
    /\ IsErrorWith(ws_sent, -32601)
    /\ ws_sent.error.message = "Method not found: foo/bar"

---------------------------------------------------------------------------
(* The providers on their own (ProviderSpec).                                *)

\* The call made on the provider is of the method and has finished
DirectCallOf(method) ==
    direct_call # Unset /\ direct_call.method = method /\ pc = "receive"
DirectReturned == direct_result # Unset /\ direct_result.kind = "return"

\* C22: the offline lookup is a function of its arguments: for a metric
\* call the temperature is the table value of the lower-cased location, for
\* an imperial call it is C * 9 / 5 + 32 rounded to the nearest tenth
\* (temperatures are in tenths here: F is within half a tenth of
\* (9 * C + 1600) / 5), and the description, humidity and wind are the table's.
C22_MockLookupConverts ==
    (DirectCallOf("_get_mock_weather") /\ direct_call.location.kind = "str"
       /\ direct_call.units \in {JStr("metric"), JStr("imperial")})
    => LET data == mock_data(StrLower(direct_call.location.val))
           w == direct_result.val
       IN /\ DirectReturned
          /\ direct_call.units = JStr("metric") => w.temperature = data.temp
          /\ direct_call.units = JStr("imperial")
               => 2 * Abs(5 * w.temperature - (9 * data.temp + 1600)) <= 5
          /\ w.description = data.desc
          /\ w.humidity = data.humidity
          /\ w.wind_speed = data.wind
          /\ w.units = direct_call.units.val

\* Paris in imperial units: 18.7 C is 65.66 F, reported as 65.7
C22_Witness ==
    /\ DirectCallOf("_get_mock_weather")
    /\ direct_call.location = JStr("Paris") /\ direct_call.units = JStr("imperial")
    /\ DirectReturned /\ direct_result.val.temperature = 657

\* The offline values of a location string, in the units asked for
OfflineValues(location, units) ==
    LET key == StrLower(location)
        known == key \in {"new york", "london", "tokyo", "paris", "sydney"}
        c == IF known THEN mock_data(key).temp ELSE 200
    IN  [temperature |-> IF units = "imperial" THEN ToFahrenheit(c) ELSE c,
         description |-> IF known THEN mock_data(key).desc ELSE "partly cloudy",
         humidity |-> IF known THEN mock_data(key).humidity ELSE 60,
         wind_speed |-> IF known THEN mock_data(key).wind ELSE 30]

OfflineCall ==
    /\ DirectCallOf("get_weather")
    /\ direct_call.location.kind = "str"
    /\ ~weather_api_key \/ backend.upstream.kind = "fail"

\* C23: get_weather without an API key, or with a key and a failed upstream
\* call, returns the offline values: those of the five cities whatever the
\* capitalisation of the location, and 20.0, partly cloudy, 60, 3.0 for every
\* other location string.
C23_OfflineValuesByLowerCasedCity ==
    OfflineCall
    => /\ DirectReturned
       /\ LET w == direct_result.val
              v == OfflineValues(direct_call.location.val, direct_call.units.val)
          IN  /\ w.temperature = v.temperature
              /\ w.description = v.description
              /\ w.humidity = v.humidity
              /\ w.wind_speed = v.wind_speed

\* "PARIS" with a key and a failed upstream call gives the values of paris
C23_Witness ==
    /\ OfflineCall /\ weather_api_key
    /\ direct_call.location = JStr("PARIS") /\ direct_call.units = JStr("metric")
    /\ DirectReturned /\ direct_result.val.temperature = 187
    /\ direct_result.val.description = "overcast"

\* The day of the month a mock date names
DayOfMonth(date) == CHOOSE d \in 0..99 : date = "2024-01-" \o TwoDigits(d)

\* The entries are day 1..n in order, dated 2024-01-(15+i) for i = 0..n-1
IsForecastOfDays(forecast, n) ==
    /\ Len(forecast) = n
    /\ \A k \in 1..n :
         /\ forecast[k].day = k
         /\ forecast[k].date = "2024-01-" \o ToString(15 + (k - 1))
    /\ \A k \in 1..(n - 1) :
         DayOfMonth(forecast[k].date) < DayOfMonth(forecast[k + 1].date)

\* The days the get_forecast tool asks for: the argument, 5 without one
DaysAsked(req) == DictGet(req.params.val["arguments"], "days", JInt(5))

\* C24: get_weather_forecast(location, days = N) with an integer N >= 0 and a
\* location string returns exactly N entries in order, day = 1..N, dated
\* 2024-01-(15+i) with the day of the month strictly increasing; the
\* get_forecast tool answers with the text of the forecast for the days of
\* its arguments, and of 5 days when the argument is absent.
C24_ForecastHasDaysEntries ==
    /\ (DirectCallOf("get_weather_forecast") /\ direct_call.location.kind = "str"
          /\ direct_call.days.kind = "int" /\ direct_call.days.val >= 0)
       => /\ DirectReturned
          /\ IsForecastOfDays(direct_result.val.forecast, direct_call.days.val)
    /\ DirectCallOf("handle_call_tool")
       => LET req == direct_call.request
              asked == get_weather_forecast(JStr("Paris"), DaysAsked(req),
                                            weather_api_key, backend.upstream)
          IN  /\ DaysAsked(req) = JInt(5) \/ HasKey(req.params.val["arguments"], "days")
              /\ IsForecastOfDays(asked.val.forecast, DaysAsked(req).val)
              /\ DirectReturned
              /\ IsToolResult(direct_result.val, FALSE)
              /\ direct_result.val.result.content[1].text = ForecastText(asked.val)

\* seven days asked of the provider
C24_Witness ==
    /\ DirectCallOf("get_weather_forecast") /\ direct_call.days = JInt(7)
    /\ direct_call.location = JStr("Tokyo")
    /\ DirectReturned /\ Len(direct_result.val.forecast) = 7
    /\ direct_result.val.forecast[7].date = "2024-01-21"

\* A call of the insight provider that takes the degraded branch, for a
\* location the weather provider answers
DegradedCall(method) ==
    /\ DirectCallOf(method)
    /\ direct_call.location.kind = "str"
    /\ ~llm_configured \/ backend.llm.kind = "fail"

\* The same provider without a language-model backend
Unconfigured(env) == [env EXCEPT !.llm_set = FALSE]

DegradedInsightsAre(result) ==
    LET env == Env(backend.upstream, backend.llm)
        weather == get_weather(direct_call.location, JStr("metric"),
                               weather_api_key, backend.upstream).val
    IN  /\ result.kind = "return"
        /\ result.val = MockInsightsText(weather, direct_call.activity.val)
        /\ result = get_weather_insights(direct_call.location, direct_call.activity,
                                         Unconfigured(env))

DegradedSummaryIs(result) ==
    LET env == Env(backend.upstream, backend.llm) IN
    /\ result.kind = "return"
    /\ DOMAIN result.val = {"summary", "advisory", "location", "powered_by"}
    /\ result.val.powered_by = "Mock Data (Add OpenAI API key for AI-powered insights)"
    /\ result = get_weather_summary_and_advisory(direct_call.location,
                                                 Unconfigured(env))

\* C25 as stated: whatever the activity, the degraded branch of
\* get_weather_insights and of get_weather_summary_and_advisory returns.
C25_DegradedBranchNeverRaises ==
    /\ DegradedCall("get_weather_insights") => DirectReturned
    /\ DegradedCall("get_weather_summary_and_advisory") => DirectReturned

\* C25 (amended): for an activity that is a string, get_weather_insights
\* without a language-model backend, or with one whose call raises, returns
\* the rule-based text of the weather and the activity, and
\* get_weather_summary_and_advisory returns a mapping of summary, advisory,
\* location and powered_by; after a backend failure the value is the one the
\* unconfigured provider returns.
C25_DegradedBranchReturnsForStringActivity ==
    /\ (DegradedCall("get_weather_insights") /\ direct_call.activity.kind = "str")
       => DegradedInsightsAre(direct_result)
    /\ DegradedCall("get_weather_summary_and_advisory")
       => DegradedSummaryIs(direct_result)

\* a configured backend that raises, asked about hiking in London
C25_Witness ==
    /\ DegradedCall("get_weather_insights") /\ llm_configured
    /\ direct_call.activity = JStr("hiking") /\ direct_call.location = JStr("LONDON")
    /\ DirectReturned

---------------------------------------------------------------------------
(* The server again (Spec).                                                  *)

\* C26: every tools/call response that carries a result, for a tool that ran
\* and for a tool that failed, has exactly the fields content and isError:
\* content is a non-empty list of blocks {type: "text", text: <string>},
\* isError is a boolean, and there is no data field.
C26_ToolResultShape ==
    (Returned /\ request.method = "tools/call" /\ IsResponse(response)
       /\ response.result # None)
    => /\ DOMAIN response.result = {"content", "isError"}
       /\ "data" \notin DOMAIN response.result
       /\ Len(response.result.content) >= 1
       /\ \A k \in 1..Len(response.result.content) :
            /\ DOMAIN response.result.content[k] = {"type", "text"}
            /\ response.result.content[k].type = "text"
            /\ response.result.content[k].text \in STRING
       /\ response.result.isError \in BOOLEAN
       /\ response.error = None

\* a get_forecast that failed
C26_Witness ==
    /\ Returned /\ request.method = "tools/call" /\ IsResponse(response)
    /\ response.result # None /\ response.result.isError
    /\ ParamsHave("name") /\ Param("name") = JStr("get_forecast")

\* C27: on the WebSocket every frame that parses into a valid envelope is
\* answered with one response frame and leaves the connection open: the
\* connection is closed by a malformed frame or by the client's disconnect
\* (seen when the next frame is read, or when the response is sent) only.
C27_OnlyMalformedOrDisconnectCloses ==
    (transport = "ws" /\ pc = "closed")
        => close_reason \in {"malformed", "disconnect", "client_gone"}

\* A frame that is not JSON, or whose JSON has no id or no method
Unparsable(data) ==
    \/ data = NotJson
    \/ data.kind # "obj"
    \/ ~HasKey(data, "id")
    \/ ~HasKey(data, "method")

\* C28: a WebSocket frame that is not valid JSON, or that lacks method or id,
\* is answered with no envelope and closes the connection; the dispatcher is
\* not invoked for it, and a closed connection takes no further step: no
\* later frame is read or processed.
C28_MalformedFrameClosesSilently ==
    [][(transport = "ws")
         => /\ pc # "closed"
            /\ (ws_data' # ws_data /\ ws_data' # Unset /\ Unparsable(ws_data'))
                 => /\ pc = "receive"
                    /\ pc' = "closed"
                    /\ close_reason' = "malformed"
                    /\ ws_sent' = Unset
                    /\ UNCHANGED <<ws_in, ws_out, request, response, handler_exc,
                                   provider_calls, backend, initialized>>]_vars

\* the second frame of a connection has no id: one answer was sent, for the
\* first
C28_Witness ==
    /\ transport = "ws" /\ pc = "closed" /\ close_reason = "malformed"
    /\ ws_data = JObj("method" :> JStr("initialize"))
    /\ Len(ws_in) = 1 /\ Len(ws_out) = 1 /\ ws_sent = Unset

\* What the three list methods and completion/complete answer
ListRequest(method) == [id |-> JInt(1), method |-> method, params |-> None]
Range(seq) == {seq[k] : k \in DOMAIN seq}
ListedToolNames ==
    {t.name : t \in Range(handle_list_tools(ListRequest("tools/list")).val.result.tools)}
ListedResourceUris ==
    {r.uri : r \in Range(handle_list_resources(ListRequest("resources/list")).val.result.resources)}
ListedPromptNames ==
    {p.name : p \in Range(handle_list_prompts(ListRequest("prompts/list")).val.result.prompts)}
CompletedValues ==
    Range(handle_completion(ListRequest("completion/complete")).val.result.completion.values)

\* The value given for the parameter is a string of the set
GivenIn(key, names) == Param(key).kind = "str" /\ Param(key).val \in names

\* C29: the catalogs agree with the lookups.  A tools/call that gives a name is
\* answered with -32601 exactly when the name is not one that tools/list
\* returns, and completion/complete returns the same names; a resources/read
\* that gives a uri is answered with -32602 exactly when the uri is not one
\* that resources/list returns; a prompts/get that gives a name is answered
\* with -32601 exactly when the name is not one that prompts/list returns.
C29_CatalogsAgreeWithLookups ==
    /\ CompletedValues = ListedToolNames
    /\ (Returned /\ request.method = "tools/list")
         => response = handle_list_tools(request).val
    /\ (Returned /\ request.method = "tools/call" /\ ParamsHave("name"))
         => (IsErrorWith(response, MethodNotFound) <=> ~GivenIn("name", ListedToolNames))
    /\ (Returned /\ request.method = "resources/read" /\ ParamsHave("uri"))
         => (IsErrorWith(response, InvalidParams) <=> ~GivenIn("uri", ListedResourceUris))
    /\ (Returned /\ request.method = "prompts/get" /\ ParamsHave("name"))
         => (IsErrorWith(response, MethodNotFound) <=> ~GivenIn("name", ListedPromptNames))

\* the lookup is by the exact name: Get_Weather is not a tool
C29_Witness ==
    /\ Returned /\ request.method = "tools/call" /\ ParamsHave("name")
    /\ Param("name") = JStr("Get_Weather")
    /\ IsErrorWith(response, MethodNotFound)
    /\ response.error.message = "Unknown tool: Get_Weather"

\* The tools/call at hand ended in "Location is required"
LocationRequiredFailure ==
    /\ IsToolResult(response, TRUE)
    /\ ToolText = ToolFailureText("Location is required")

\* C30: in tools/call the name and the location are checked before any
\* provider is invoked: a request answered with -32602 (no name), with -32601
\* (unknown tool) or with the "Location is required" failure has made no call
\* to the weather provider and none to the insight provider.
C30_ChecksBeforeProviders ==
    (Returned /\ request.method = "tools/call"
       /\ \/ IsErrorWith(response, InvalidParams)
          \/ IsErrorWith(response, MethodNotFound)
          \/ (NamesRegisteredTool /\ LocationRequiredFailure))
    => provider_calls = <<>>

\* get_weather_insights with location "": refused, the insight provider was
\* not asked
C30_Witness ==
    /\ Returned /\ NamesRegisteredTool /\ Param("name").val = "get_weather_insights"
    /\ GivenArguments.kind = "obj" /\ ~LocationAbsent
    /\ GivenArguments.val["location"] = JStr("")
    /\ LocationRequiredFailure
    /\ provider_calls = <<>>

====
